---------------------------- MODULE Spec2Model ----------------------------
(***************************************************************************)
(* Model of the WebReg schedule parser (scripts/scheduleParser.js), the    *)
(* calendar document generator (scripts/googleCalendar.js) and the popup   *)
(* review / edit / export flow (scripts/popup.js).                         *)
(*                                                                         *)
(* JavaScript strings are TLA+ strings; a character is a string of length  *)
(* one.  The empty string is the JavaScript falsy string.  Regular         *)
(* expressions of the source are hand-written matchers over characters.    *)
(***************************************************************************)
EXTENDS Integers, Sequences, FiniteSets, TLC

VARIABLES
    pc,             \* position of the running handler
    quarter, year,  \* the term selected in the popup
    rawText,        \* the text handed to parseTextToEvents, or to the function called
    args,           \* the other arguments of a function called by itself
    pasted,         \* the events textParser.parseWebRegText returned
    api,            \* googleCalendarAPI and the running createMultipleEvents
    lines,          \* parseWebRegFormat: the trimmed non-empty lines
    i,              \* parseWebRegFormat: loop index (1-based)
    scan,           \* parseWebRegFormat: events and the carried current* values
    result,         \* the list parseTextToEvents returned
    icsIn,          \* generateICSFile: the events argument
    j,              \* generateICSFile: loop index (1-based)
    ics,            \* generateICSFile: VEVENT blocks, eventsCreated, createdICSEvents
    heap,           \* popup: the CourseEvent objects, by reference
    currentEvents,  \* popup: the global currentEvents array (references)
    review,         \* popup: the review form on screen (events, eventsNeedingReview)
    timers,         \* popup: pending setupExportButtons timeouts (event lists)
    handler,        \* popup: the list captured by the attached download handler
    passed          \* popup: the lists of records the download handler passed on

vars == <<pc, quarter, year, rawText, args, pasted, api, lines, i, scan, result, icsIn, j, ics,
          heap, currentEvents, review, timers, handler, passed>>

\* googleCalendarAPI after its constructor (accessToken null, isAuthenticated
\* false), no createMultipleEvents running
ApiIdle == [isAuthenticated |-> FALSE]
---------------------------------------------------------------------------
(* Characters and strings                                                  *)

\* characters a..b of s (1-based, inclusive), clamped to the string as
\* String.prototype.substring and slice clamp their arguments
substring(s, a, b) ==
    SubSeq(s, IF a < 1 THEN 1 ELSE a, IF b > Len(s) THEN Len(s) ELSE b)

\* the k-th character of s, the empty string outside of s
Ch(s, k) == substring(s, k, k)

UpperAlphabet == "ABCDEFGHIJKLMNOPQRSTUVWXYZ"
LowerAlphabet == "abcdefghijklmnopqrstuvwxyz"
DigitAlphabet == "0123456789"

UpperSet == {Ch(UpperAlphabet, k) : k \in 1..Len(UpperAlphabet)}
LowerSet == {Ch(LowerAlphabet, k) : k \in 1..Len(LowerAlphabet)}
DigitSet == {Ch(DigitAlphabet, k) : k \in 1..Len(DigitAlphabet)}
\* \s of a regular expression (the white space that occurs in these texts)
SpaceSet == {" ", "\t", "\n", "\r"}
\* \w of a regular expression
WordSet  == UpperSet \cup LowerSet \cup DigitSet \cup {"_"}

LowerTable ==
    [c \in UpperSet |->
        Ch(LowerAlphabet, CHOOSE k \in 1..Len(UpperAlphabet) : Ch(UpperAlphabet, k) = c)]
UpperTable ==
    [c \in LowerSet |->
        Ch(UpperAlphabet, CHOOSE k \in 1..Len(LowerAlphabet) : Ch(LowerAlphabet, k) = c)]

RECURSIVE MapChars(_, _)
\* s with every character c in the domain of f replaced by f[c]
MapChars(s, f) ==
    IF Len(s) <= 1 THEN (IF s \in DOMAIN f THEN f[s] ELSE s)
    ELSE MapChars(substring(s, 1, Len(s) \div 2), f)
         \o MapChars(substring(s, Len(s) \div 2 + 1, Len(s)), f)

toLowerCase(s) == MapChars(s, LowerTable)
toUpperCase(s) == MapChars(s, UpperTable)

\* s.replace(/\s+/g, '')
RemoveSpaces(s) == MapChars(s, [c \in SpaceSet |-> ""])

\* sub stands in s at index k
StartsAt(s, k, sub) ==
    k >= 1 /\ k + Len(sub) - 1 <= Len(s) /\ substring(s, k, k + Len(sub) - 1) = sub

\* String.prototype.includes
includes(s, sub) == \E k \in 1..(Len(s) + 1) : StartsAt(s, k, sub)

RECURSIVE TrimStart(_)
TrimStart(s) ==
    IF Ch(s, 1) \in SpaceSet THEN TrimStart(substring(s, 2, Len(s))) ELSE s
RECURSIVE TrimEnd(_)
TrimEnd(s) ==
    IF Ch(s, Len(s)) \in SpaceSet THEN TrimEnd(substring(s, 1, Len(s) - 1)) ELSE s
\* String.prototype.trim
trim(s) == TrimEnd(TrimStart(s))

\* String.prototype.indexOf(c, a) for a character c, 1-based; 0 for not found
IndexFrom(s, c, a) ==
    IF \E k \in a..Len(s) : Ch(s, k) = c
    THEN CHOOSE k \in a..Len(s) : Ch(s, k) = c /\ \A x \in a..(k - 1) : Ch(s, x) # c
    ELSE 0

RECURSIVE SplitFrom(_, _, _)
\* the pieces of s from index a on, k being the next separator (0 for none)
SplitAt(s, sep, a, k) ==
    IF k = 0 THEN <<substring(s, a, Len(s))>>
    ELSE <<substring(s, a, k - 1)>> \o SplitFrom(s, sep, k + 1)

SplitFrom(s, sep, a) == SplitAt(s, sep, a, IndexFrom(s, sep, a))

\* String.prototype.split on a one-character separator
split(s, sep) == SplitFrom(s, sep, 1)

RECURSIVE join(_, _)
\* Array.prototype.join
join(parts, sep) ==
    IF Len(parts) = 0 THEN ""
    ELSE IF Len(parts) = 1 THEN parts[1]
    ELSE parts[1] \o sep \o join(Tail(parts), sep)

RECURSIVE TrimAll(_)
\* parts.map(p => p.trim()).filter(p => p.length > 0)
TrimAll(parts) ==
    IF Len(parts) = 0 THEN <<>>
    ELSE (IF trim(parts[1]) = "" THEN <<>> ELSE <<trim(parts[1])>>) \o TrimAll(Tail(parts))

RECURSIVE parseInt(_)
\* parseInt of a string of decimal digits
parseInt(s) ==
    IF s = "" THEN 0
    ELSE 10 * parseInt(substring(s, 1, Len(s) - 1))
         + (CHOOSE v \in 0..9 : Ch(DigitAlphabet, v + 1) = Ch(s, Len(s)))

RECURSIVE NumStr(_)
\* String(n) for a natural number
NumStr(n) ==
    IF n < 10 THEN Ch(DigitAlphabet, n + 1)
    ELSE NumStr(n \div 10) \o Ch(DigitAlphabet, (n % 10) + 1)

\* String(n).padStart(2, '0')
Pad2(n) == IF n < 10 THEN "0" \o NumStr(n) ELSE NumStr(n)

---------------------------------------------------------------------------
(* Regular expressions: a pattern is a sequence of atoms; a position is    *)
(* the index of the next character to match                                *)

\* between lo and hi characters of the class S
Cls(S, lo, hi) == [t |-> "cls", set |-> S, lo |-> lo, hi |-> hi]
\* one of the literal strings of W; "" in W makes the atom optional
Alt(W) == [t |-> "alt", set |-> W, lo |-> 1, hi |-> 1]
Bol == [t |-> "bol", set |-> {}, lo |-> 0, hi |-> 0]
Eol == [t |-> "eol", set |-> {}, lo |-> 0, hi |-> 0]
WordBoundary == [t |-> "wb", set |-> {}, lo |-> 0, hi |-> 0]
\* the upper bound of * and +
Many == 99

\* the positions after atom a matched from a position of K
Step(a, s, K) ==
    CASE a.t = "cls" ->
           UNION {{k + m : m \in {n \in a.lo..a.hi :
                                     /\ k + n <= Len(s) + 1
                                     /\ \A x \in k..(k + n - 1) : Ch(s, x) \in a.set}}
                  : k \in K}
      [] a.t = "alt" -> {p[1] + Len(p[2]) : p \in {q \in K \X a.set : StartsAt(s, q[1], q[2])}}
      [] a.t = "bol" -> K \cap {1}
      [] a.t = "eol" -> K \cap {Len(s) + 1}
      [] a.t = "wb"  -> {k \in K : (Ch(s, k - 1) \in WordSet) # (Ch(s, k) \in WordSet)}

RECURSIVE MatchEnds(_, _, _, _)
\* the positions after atoms n.. of re matched from a position of K
MatchEnds(re, n, s, K) ==
    IF n > Len(re) \/ K = {} THEN K ELSE MatchEnds(re, n + 1, s, Step(re[n], s, K))

\* RegExp.prototype.test
test(re, s) == MatchEnds(re, 1, s, 1..(Len(s) + 1)) # {}

\* the leftmost position a match starts at
MatchStart(re, s) ==
    CHOOSE k \in 1..(Len(s) + 1) :
        /\ MatchEnds(re, 1, s, {k}) # {}
        /\ \A y \in 1..(k - 1) : MatchEnds(re, 1, s, {y}) = {}

\* the ends of atom n from position k that let the rest of re match
AtomEnds(re, n, s, k) == {e \in Step(re[n], s, {k}) : MatchEnds(re, n + 1, s, {e}) # {}}

\* greedy: the longest of them (no alternative of an Alt atom of these
\* patterns is a prefix of another, so the order of alternatives is immaterial)
Greatest(S) == CHOOSE e \in S : \A x \in S : x <= e

RECURSIVE Bounds(_, _, _, _)
\* the positions at which atoms n.. begin, and where the last one ends
Bounds(re, n, s, k) ==
    IF n > Len(re) THEN <<k>>
    ELSE <<k>> \o Bounds(re, n + 1, s, Greatest(AtomEnds(re, n, s, k)))

\* String.prototype.match without the g flag: the bounds of the atoms, <<>> for null
match(re, s) == IF test(re, s) THEN Bounds(re, 1, s, MatchStart(re, s)) ELSE <<>>

\* the text atoms a..b matched, m being the bounds match returned
Group(s, m, a, b) == substring(s, m[a], m[b + 1] - 1)

\* atoms used by several expressions of the source
Digits(lo, hi) == Cls(DigitSet, lo, hi)
Lit(w) == Alt({w})
\* (M|Tu|W|Th|F|Sa|Su) under the i flag, for a lower-cased subject
DayAtom == Alt({"m", "tu", "w", "th", "f", "sa", "su"})
\* \d{1,2}:\d{2}[ap]
TimeAtoms == <<Digits(1, 2), Lit(":"), Digits(2, 2), Cls({"a", "p"}, 1, 1)>>

---------------------------------------------------------------------------
(* Day-token normalizer (ScheduleParser.correctOCRDays, normalizeDays)     *)

\* .replace(/[lI1|]$/g, '')
DropArtifact(s) ==
    IF Ch(s, Len(s)) \in {"l", "I", "1", "|"} THEN substring(s, 1, Len(s) - 1) ELSE s

\* correctOCRDays without its replacement of E by F
DropArtifactOnly(dayString) == IF dayString = "" THEN "" ELSE DropArtifact(dayString)

correctOCRDays(dayString) ==
    IF dayString = "" THEN ""
    ELSE DropArtifact(MapChars(dayString, [c \in {"E", "e"} |-> IF c = "E" THEN "F" ELSE "f"]))

dayMappings ==
    [k \in {"m", "tu", "w", "th", "f", "sa", "su"} |->
        CASE k = "m" -> "M" [] k = "tu" -> "Tu" [] k = "w" -> "W" [] k = "th" -> "Th"
          [] k = "f" -> "F" [] k = "sa" -> "Sa" [] k = "su" -> "Su"]

combinationMappings ==
    [k \in {"mwf", "mw", "tuth", "tth", "wf", "mf", "mwth", "twth", "mtwthf", "mtuthf"} |->
        CASE k = "mwf" -> "MWF" [] k = "mw" -> "MW" [] k = "tuth" -> "TuTh"
          [] k = "tth" -> "TuTh" [] k = "wf" -> "WF" [] k = "mf" -> "MF"
          [] k = "mwth" -> "MWTh" [] k = "twth" -> "TuWTh"
          [] k = "mtwthf" -> "MTuWThF" [] k = "mtuthf" -> "MTuThF"]

RECURSIVE RebuildDays(_, _)
\* the while loop of normalizeDays, from index k (1-based) of lower
RebuildDays(lower, k) ==
    IF k > Len(lower) THEN ""
    ELSE IF k + 1 <= Len(lower) /\ substring(lower, k, k + 1) \in DOMAIN dayMappings
         THEN dayMappings[substring(lower, k, k + 1)] \o RebuildDays(lower, k + 2)
         ELSE IF Ch(lower, k) \in DOMAIN dayMappings
              THEN dayMappings[Ch(lower, k)] \o RebuildDays(lower, k + 1)
              ELSE RebuildDays(lower, k + 1)

\* the lower-case keys every object literal answers besides its own: the
\* members it inherits from Object.prototype
InheritedProperties == {"constructor", "__proto__"}

\* what obj[name] is for an inherited name: the function Object, or the
\* prototype object; neither is a string and both are truthy
ObjectMember(name) == [inherited |-> name]

\* steps 4 and 5 of normalizeDays, lower being the cleaned lower-cased token
MapDays(lower, dayString) ==
    IF lower \in DOMAIN combinationMappings THEN combinationMappings[lower]
    ELSE IF lower \in InheritedProperties THEN ObjectMember(lower)
    ELSE IF RebuildDays(lower, 1) # "" THEN RebuildDays(lower, 1) ELSE dayString

normalizeDays(dayString) ==
    IF dayString = "" THEN ""
    ELSE MapDays(toLowerCase(correctOCRDays(RemoveSpaces(dayString))), dayString)

---------------------------------------------------------------------------
(* Field recognizers (ScheduleParser)                                      *)

\* what a helper returns for no match
null == <<>>

\* (\d{1,2}):(\d{2})([ap])m?-(\d{1,2}):(\d{2})([ap])m?   atoms 1..11
TimeRangeRe ==
    TimeAtoms \o <<Alt({"m", ""}), Lit("-")>> \o TimeAtoms \o <<Alt({"m", ""})>>

\* the start and end of parseTimeRange from the bounds m of its match
TimesOf(s, m) ==
    IF m = null THEN [start |-> "", end |-> ""]
    ELSE [start |-> NumStr(parseInt(Group(s, m, 1, 1))) \o ":" \o Group(s, m, 3, 3)
                    \o Group(s, m, 4, 4) \o "m",
          end   |-> NumStr(parseInt(Group(s, m, 7, 7))) \o ":" \o Group(s, m, 9, 9)
                    \o Group(s, m, 10, 10) \o "m"]

parseTimeRange(timeRange) == TimesOf(timeRange, match(TimeRangeRe, timeRange))

\* /\d{1,2}:\d{2}[ap]-?\d{1,2}:\d{2}[ap]/i.test(field)
IsTimeRangeField(field) ==
    test(TimeAtoms \o <<Alt({"-", ""})>> \o TimeAtoms, toLowerCase(field))

\* the object splitDayTime builds from the bounds m of its match
DayTimeOf(field, m) ==
    IF m = null THEN null
    ELSE [day |-> normalizeDays(Group(field, m, 2, 2)), time |-> Group(field, m, 3, 13)]

\* /^(M|Tu|W|Th|F|Sa|Su)(\d{1,2}:\d{2}[ap]m?-\d{1,2}:\d{2}[ap]m?)$/i
splitDayTime(field) ==
    DayTimeOf(field, match(<<Bol, DayAtom>> \o TimeRangeRe \o <<Eol>>, toLowerCase(field)))

\* groups 1 and 2 of the exam parsers' dayDateMatch from the bounds m
DayDateOf(f, m) ==
    IF m = null THEN null ELSE [day |-> Group(f, m, 2, 2), date |-> Group(f, m, 4, 8)]

\* f.match(/^(M|Tu|W|Th|F|Sa|Su)\s+(\d{1,2}\/\d{1,2}\/\d{2,4})$/i)
dayDateMatch(f) ==
    DayDateOf(f, match(<<Bol, DayAtom, Cls(SpaceSet, 1, Many), Digits(1, 2), Lit("/"),
                         Digits(1, 2), Lit("/"), Digits(2, 4), Eol>>, toLowerCase(f)))

actionWords == {"DROP", "CHANGE", "ENROLLED", "WAITLIST", "STATUS", "POSITION", "ACTION"}

excludeWords ==
    {"DROP", "CHANGE", "ENROLLED", "WAITLIST", "STATUS", "POSITION",
     "LE", "DI", "LA", "FI", "MI", "MWF", "TUTH", "ACTION", "M", "W", "F"}

knownBuildings ==
    {"CENTR", "CENTER", "LEDDN", "LEDN", "YORK", "PCYNH", "PETER", "WLH", "SOLIS",
     "PODEM", "MOS", "CSB", "EBU3B", "EBU1", "EBU2", "JWMMC", "SME", "MANDE",
     "MAYER", "UREY", "BONNER", "NSB", "PACIF", "MYR-A", "HSS", "GALB", "SEQUO",
     "CRAWF", "BSB", "CMME", "CMMW", "MTF", "LSRI", "APM", "RCLAS", "GAL", "RWAC",
     "COA", "FAH", "PRICE", "CPMC", "DANCE", "GYM", "RBC", "OTRSN", "ERCA", "DIB",
     "MOGU", "GH", "AP", "HL", "MC", "PH", "SH", "TBA", "REMOTE", "ONLINE"}

\* isBuildingCode on f = field.trim().toUpperCase()
IsBuildingName(f) ==
    /\ f \notin excludeWords
    /\ f \in knownBuildings \/ test(<<Bol, Cls(UpperSet, 2, 6), Eol>>, f)

isBuildingCode(field) == IsBuildingName(toUpperCase(trim(field)))

RECURSIVE IsDayCodeRun(_)
\* s is a (possibly empty) concatenation of lower-cased day codes
IsDayCodeRun(s) ==
    \/ s = ""
    \/ \E n \in 1..2 : /\ n <= Len(s)
                       /\ substring(s, 1, n) \in DOMAIN dayMappings
                       /\ IsDayCodeRun(substring(s, n + 1, Len(s)))

\* [BCDGIJKLNOPQRVXYZ] under the i flag, for a lower-cased subject
NotDayLetters ==
    {"b", "c", "d", "g", "i", "j", "k", "l", "n", "o", "p", "q", "r", "v", "x", "y", "z"}

isDaysPattern(field) ==
    /\ field # ""
    /\ ~isBuildingCode(trim(field))
    /\ ~test(<<Cls(NotDayLetters, 1, 1)>>, toLowerCase(RemoveSpaces(trim(field))))
    /\ normalizeDays(trim(field)) # ""
    \* /^(M|Tu|W|Th|F|Sa|Su)+$/i
    /\ IsDayCodeRun(toLowerCase(normalizeDays(trim(field))))

\* map[type?.toUpperCase()] || type || 'Lecture'
normalizeSessionType(type) ==
    CASE toUpperCase(type) = "LE" -> "Lecture"
      [] toUpperCase(type) = "DI" -> "Discussion"
      [] toUpperCase(type) = "LA" -> "Lab"
      [] toUpperCase(type) = "FI" -> "Final Exam"
      [] toUpperCase(type) = "MI" -> "Midterm"
      [] OTHER -> IF type # "" THEN type ELSE "Lecture"

\* /^[A-F][0-9O]{2}$/i.test(field)
IsSectionField(field) ==
    test(<<Bol, Cls({"a", "b", "c", "d", "e", "f"}, 1, 1), Cls(DigitSet \cup {"o"}, 2, 2),
           Eol>>, toLowerCase(field))

\* /^[A-Z0-9]{2,5}$/i.test(field)
IsRoomShape(field) ==
    test(<<Bol, Cls(LowerSet \cup DigitSet, 2, 5), Eol>>, toLowerCase(field))

\* building && room ? `${building} ${room}` : building || room || 'TBA'
LocationOf(building, room) ==
    IF building # "" /\ room # "" THEN building \o " " \o room
    ELSE IF building # "" THEN building
    ELSE IF room # "" THEN room ELSE "TBA"

---------------------------------------------------------------------------
(* CourseEvent (scheduleParser.js)                                         *)

\* the constructor's defaults; midtermDate is the property the review form adds
\* to Midterm records (absent, hence falsy, until then)
EventDefaults ==
    [courseCode |-> "", courseTitle |-> "", sessionType |-> "", sectionCode |-> "",
     instructor |-> "", days |-> "", startTime |-> "", endTime |-> "",
     location |-> "", building |-> "", room |-> "", finalDate |-> "",
     finalDay |-> "", quarter |-> "", year |-> "", units |-> "", midtermDate |-> ""]

CourseEvent(given) == given @@ EventDefaults

\* getNormalizedSessionType on type = this.sessionType.toLowerCase()
SessionKind(type, sessionType) ==
    IF includes(type, "final") \/ type = "fi" THEN "Final Exam"
    ELSE IF includes(type, "midterm") \/ type = "mi" THEN "Midterm"
    ELSE IF includes(type, "lec") \/ type = "le" THEN "Lecture"
    ELSE IF includes(type, "dis") \/ type = "di" THEN "Discussion"
    ELSE IF includes(type, "lab") \/ type = "la" THEN "Lab"
    ELSE IF sessionType # "" THEN sessionType ELSE "Lecture"

getNormalizedSessionType(e) == SessionKind(toLowerCase(e.sessionType), e.sessionType)

getEventTitle(e) == e.courseCode \o " - " \o getNormalizedSessionType(e)

\* the footer line is written here without its leading pictograph
getEventDescription(e) ==
    join(<<"Course: " \o e.courseCode
             \o (IF e.courseTitle # "" THEN " - " \o e.courseTitle ELSE "")>>
         \o (IF e.sectionCode # "" THEN <<"Section: " \o e.sectionCode>> ELSE <<>>)
         \o (IF e.instructor # "" THEN <<"Instructor: " \o e.instructor>> ELSE <<>>)
         \o (IF e.location # "" THEN <<"Location: " \o e.location>> ELSE <<>>)
         \o (IF e.quarter # "" /\ e.year # ""
             THEN <<"Quarter: " \o e.quarter \o " " \o e.year>> ELSE <<>>)
         \o <<"", "Created by Getting It Done">>, "\n")

isValid(e) ==
    /\ e.courseCode # "" /\ e.sessionType # ""
    /\ (e.days # "" \/ e.finalDate # "")
    /\ e.startTime # ""

---------------------------------------------------------------------------
(* Line type detection (ScheduleParser)                                    *)

headerKeywords ==
    {"subject", "course", "title", "section", "code", "type", "instructor", "grade",
     "option", "units", "days", "time", "bldg", "room", "status", "action",
     "position", "calendar", "finals", "print schedule", "book list"}

\* headerKeywords.filter(kw => lowerLine.includes(kw)).length
matchCount(lowerLine) == Cardinality({kw \in headerKeywords : includes(lowerLine, kw)})

isHeaderLine(line) == matchCount(toLowerCase(line)) >= 2

\* /\d{1,2}:\d{2}[ap]/.test(line)
hasTimePattern(line) == test(TimeAtoms, line)

\* /\b(MWF|TuTh|MW|M|Tu|W|Th|F|Sa|Su)\b/i.test(line)
hasDayPattern(line) ==
    test(<<WordBoundary, Alt({"mwf", "tuth", "mw", "m", "tu", "w", "th", "f", "sa", "su"}),
           WordBoundary>>, toLowerCase(line))

\* /^[A-Z]{2,4}\s*\d{1,3}[A-Z]?/.test(line)
hasCourseCode(line) ==
    test(<<Bol, Cls(UpperSet, 2, 4), Cls(SpaceSet, 0, Many), Digits(1, 3)>>, line)

\* /^[A-Z]\d{2}/.test(line)
hasSectionCode(line) == test(<<Bol, Cls(UpperSet, 1, 1), Digits(2, 2)>>, line)

isOrphanInstructorLine(line) ==
    /\ ~hasTimePattern(line) /\ ~hasDayPattern(line)
    /\ ~hasCourseCode(line) /\ ~hasSectionCode(line)
    /\ \/ includes(line, ",")
       \/ /\ Len(line) < 30
          \* /^[A-Za-z\s]+$/
          /\ test(<<Bol, Cls(UpperSet \cup LowerSet \cup SpaceSet, 1, Many), Eol>>, line)

\* /^[A-Z]{2,4}\s*\d{1,3}[A-Z]?$/i.test(field?.trim() || '')
isCourseCodeStart(field) ==
    test(<<Bol, Cls(LowerSet, 2, 4), Cls(SpaceSet, 0, Many), Digits(1, 3),
           Cls(LowerSet, 0, 1), Eol>>, toLowerCase(trim(field)))

\* /^[A-Z][0-9]{2}$/i.test(cleaned), the letter O of either case cleaned to 0
isSectionCodeStart(field) ==
    test(<<Bol, Cls(LowerSet, 1, 1), Digits(2, 2), Eol>>,
         toLowerCase(MapChars(trim(field), [c \in {"O", "o"} |-> "0"])))

\* /midterm/i.test(line) || /\bMI\b/.test(line)
isMidtermLine(line) ==
    \/ includes(toLowerCase(line), "midterm")
    \/ test(<<WordBoundary, Lit("MI"), WordBoundary>>, line)

\* /final\s*exam/i.test(line) || /\bFI\b/.test(line)
isFinalExamLine(line) ==
    \/ test(<<Lit("final"), Cls(SpaceSet, 0, Many), Lit("exam")>>, toLowerCase(line))
    \/ test(<<WordBoundary, Lit("FI"), WordBoundary>>, line)

---------------------------------------------------------------------------
(* Line parsers (ScheduleParser)                                           *)

\* the locals of a line parser before its loop over the fields
NoFields ==
    [sectionCode |-> "", sessionType |-> "", instructor |-> "", days |-> "",
     timeRange |-> "", building |-> "", room |-> "", examDay |-> "", examDate |-> ""]

SetDayTime(acc, parts) == [acc EXCEPT !.days = parts.day, !.timeRange = parts.time]

\* the branches of the field loops that parseMainCourseLine and
\* parseSecondarySessionLine have in common, from the concatenated day+time on;
\* notRooms is the list the room branch excludes, secondary says which of the
\* two parsers runs
TimePlaceField(acc, field, notRooms, secondary) ==
    IF splitDayTime(field) # null THEN SetDayTime(acc, splitDayTime(field))
    ELSE IF IsTimeRangeField(field) THEN [acc EXCEPT !.timeRange = field]
    ELSE IF isBuildingCode(field) THEN [acc EXCEPT !.building = field]
    \* the exact single-day branch of the secondary parser assigns what the
    \* pattern branch assigns; for the main parser it is that branch or none
    ELSE IF isDaysPattern(field)
            \/ (secondary /\ toLowerCase(field) \in DOMAIN dayMappings)
         THEN [acc EXCEPT !.days = normalizeDays(field)]
    ELSE IF /\ IsRoomShape(field)
            /\ toUpperCase(field) \notin notRooms \cup actionWords
         THEN IF acc.building = "" THEN [acc EXCEPT !.building = field]
              ELSE IF secondary /\ acc.room # "" THEN acc
              ELSE [acc EXCEPT !.room = field]
    ELSE acc

\* the loop body of parseMainCourseLine
MainCourseField(acc, field) ==
    IF field = "" \/ toUpperCase(field) \in actionWords THEN acc
    ELSE IF IsSectionField(field)
         THEN [acc EXCEPT !.sectionCode = MapChars(field, [c \in {"O"} |-> "0"])]
    ELSE IF toUpperCase(field) \in {"LE", "DI", "LA"}
         THEN [acc EXCEPT !.sessionType = normalizeSessionType(field)]
    ELSE IF includes(field, ",") /\ Ch(field, 1) \notin DigitSet /\ Len(field) > 3
         THEN [acc EXCEPT !.instructor =
                  trim(IF Ch(field, Len(field)) = ":"
                       THEN substring(field, 1, Len(field) - 1) ELSE field)]
    ELSE TimePlaceField(acc, field, {"LE", "DI", "LA", "FI", "MI", "L", "P"}, FALSE)

\* the loop body of parseSecondarySessionLine
SecondarySessionField(acc, field) ==
    IF field = "" \/ toUpperCase(field) \in actionWords THEN acc
    ELSE IF IsSectionField(field)
         THEN [acc EXCEPT !.sectionCode = MapChars(field, [c \in {"O"} |-> "0"])]
    ELSE IF toUpperCase(field) \in {"LE", "DI", "LA"}
         THEN [acc EXCEPT !.sessionType = normalizeSessionType(field)]
    ELSE TimePlaceField(acc, field,
             {"LE", "DI", "LA", "FI", "MI", "L", "TU", "TH", "SA", "SU"}, TRUE)

SetExamDay(acc, parts) == [acc EXCEPT !.examDay = parts.day, !.examDate = parts.date]

\* the loop body of parseMidtermLine and of parseFinalExamLine, label being
\* the field either skips by name: 'Midterm', 'Final Exam'
ExamField(acc, f, label, code) ==
    IF f = "" \/ f = label \/ f = code \/ toUpperCase(f) \in actionWords THEN acc
    ELSE IF dayDateMatch(f) # null THEN SetExamDay(acc, dayDateMatch(f))
    ELSE IF IsTimeRangeField(f) THEN [acc EXCEPT !.timeRange = f]
    ELSE IF isBuildingCode(f) THEN [acc EXCEPT !.building = f]
    ELSE IF /\ IsRoomShape(f) /\ toUpperCase(f) \notin {"MI", "FI"}
            /\ acc.building # "" /\ acc.room = ""
         THEN [acc EXCEPT !.room = f]
    ELSE acc

RECURSIVE MainCourseFields(_, _, _)
\* the for loop of parseMainCourseLine over fields[k..]
MainCourseFields(acc, fields, k) ==
    IF k > Len(fields) THEN acc
    ELSE MainCourseFields(MainCourseField(acc, trim(fields[k])), fields, k + 1)

RECURSIVE SecondarySessionFields(_, _, _)
\* the for loop of parseSecondarySessionLine over fields[k..]
SecondarySessionFields(acc, fields, k) ==
    IF k > Len(fields) THEN acc
    ELSE SecondarySessionFields(SecondarySessionField(acc, trim(fields[k])), fields, k + 1)

RECURSIVE ExamFields(_, _, _, _, _)
\* the for loop of parseMidtermLine and of parseFinalExamLine over fields[k..]
ExamFields(acc, fields, k, label, code) ==
    IF k > Len(fields) THEN acc
    ELSE ExamFields(ExamField(acc, trim(fields[k]), label, code), fields, k + 1, label, code)

\* new CourseEvent({...}) of the line parsers, f being the locals after the loop
EventOf(f, times, sessionType, courseCode, courseTitle, sectionCode, instructor, days, q, y) ==
    CourseEvent(
        [courseCode |-> courseCode, courseTitle |-> courseTitle,
         sessionType |-> sessionType, sectionCode |-> sectionCode,
         instructor |-> instructor, days |-> days,
         startTime |-> times.start, endTime |-> times.end,
         location |-> LocationOf(f.building, f.room),
         building |-> f.building, room |-> f.room,
         finalDate |-> f.examDate, finalDay |-> f.examDay,
         quarter |-> q, year |-> y])

MainEvent(f, courseCode, courseTitle, q, y) ==
    EventOf(f, parseTimeRange(f.timeRange),
            IF f.sessionType # "" THEN f.sessionType ELSE "Lecture",
            courseCode, courseTitle, f.sectionCode, f.instructor, f.days, q, y)

\* the event of the object parseMainCourseLine returns; its courseCode,
\* courseTitle and instructor are those of the event.  null is never returned:
\* fields[0] is a non-empty course code when the scan calls it
parseMainCourseLine(fields, q, y) ==
    MainEvent(MainCourseFields(NoFields, fields, 3), trim(fields[1]),
              IF Len(fields) >= 2 THEN trim(fields[2]) ELSE "", q, y)

\* a session with a time and no day taken to meet as a discussion does
GuessDays(days, timeRange) ==
    IF days = "" /\ timeRange # "" THEN "F"
    ELSE IF timeRange = "" /\ (days = "" \/ days = "TBA") THEN "TBA"
    ELSE days

\* the MISSING_DAY and TBA markers of parseSecondarySessionLine
SecondaryDays(days, timeRange) ==
    IF days = "" /\ timeRange # "" THEN "MISSING_DAY"
    ELSE IF timeRange = "" /\ (days = "" \/ days = "TBA") THEN "TBA"
    ELSE days

SecondaryEvent(f, courseCode, courseTitle, instructor, q, y) ==
    EventOf(f, parseTimeRange(f.timeRange),
            IF f.sessionType # "" THEN f.sessionType ELSE "Discussion",
            courseCode, courseTitle, f.sectionCode, instructor,
            SecondaryDays(f.days, f.timeRange), q, y)

parseSecondarySessionLine(fields, courseCode, courseTitle, instructor, q, y) ==
    SecondaryEvent(SecondarySessionFields(NoFields, fields, 1),
                   courseCode, courseTitle, instructor, q, y)

ExamEvent(f, kind, courseCode, courseTitle, instructor, inheritedSection, q, y) ==
    EventOf(f, parseTimeRange(f.timeRange), kind, courseCode, courseTitle,
            inheritedSection, instructor, f.examDay, q, y)

parseMidtermLine(fields, courseCode, courseTitle, instructor, inheritedSection, q, y) ==
    ExamEvent(ExamFields(NoFields, fields, 1, "Midterm", "MI"), "Midterm",
              courseCode, courseTitle, instructor, inheritedSection, q, y)

parseFinalExamLine(fields, courseCode, courseTitle, instructor, inheritedSection, q, y) ==
    ExamEvent(ExamFields(NoFields, fields, 1, "Final Exam", "FI"), "Final Exam",
              courseCode, courseTitle, instructor, inheritedSection, q, y)

\* a fallback that makes no record
NoFallback(q, y) == <<>>

createEmergencyFallback(q, y) ==
    << CourseEvent(
        [courseCode |-> "EXAMPLE 101", courseTitle |-> "OCR Parsing Failed",
         sessionType |-> "Lecture", sectionCode |-> "A00",
         instructor |-> "Please try again", days |-> "MW",
         startTime |-> "12:00pm", endTime |-> "1:20pm",
         location |-> "Upload a clearer image", quarter |-> q, year |-> y]) >>

---------------------------------------------------------------------------
(* ScheduleParser.parseTextToEvents and parseWebRegFormat                  *)

\* threshold of parseTextToEvents
MinTextLength == 50

\* .replace(/\r\n/g, '\n').replace(/\r/g, '\n') turns every line ending into
\* a line feed and text.split(/\r?\n/) splits there; the texts are ASCII, so
\* the replacements of long dashes and non-breaking spaces find nothing.
\* A carriage return becomes a line feed here, and the empty line a \r\n
\* pair leaves is dropped by the filter of LinesOf
normalizeTextForParsing(text) == MapChars(text, [c \in {"\r"} |-> "\n"])

\* text.split(/\r?\n/).map(line => line.trim()).filter(line => line.length > 0)
LinesOf(text) == TrimAll(split(normalizeTextForParsing(text), "\n"))

\* line.split('\t').map(f => f.trim()).filter(f => f.length > 0)
FieldsOf(line) == TrimAll(split(line, "\t"))

\* the locals of parseWebRegFormat before the loop; currentCourse "" is null,
\* lastAddedEventIndex counts from 1 and is 0 where the code has -1
ScanStart ==
    [events |-> <<>>, currentCourse |-> "", currentTitle |-> "",
     currentInstructor |-> "", currentSection |-> "", lastAddedEventIndex |-> 0]

\* a line with its fields and what the line type detectors say of it (they
\* are pure, so the scan may ask them once, when the text is split)
Detect(line, fields) ==
    [text |-> line, fields |-> fields,
     header |-> isHeaderLine(line), orphan |-> isOrphanInstructorLine(line),
     courseCodeStart |-> isCourseCodeStart(fields[1]),
     sectionCodeStart |-> isSectionCodeStart(fields[1]),
     midterm |-> isMidtermLine(line), final |-> isFinalExamLine(line)]

\* the lines of text, each with its fields and detections
DetectAll(ls) == [k \in 1..Len(ls) |-> Detect(ls[k], FieldsOf(ls[k]))]

\* the branches without their check of currentCourse
LineKindAnyCourse(l, currentCourse) ==
    IF l.header THEN "header"
    ELSE IF l.orphan THEN "orphan"
    ELSE IF l.courseCodeStart THEN "main"
    ELSE IF l.sectionCodeStart THEN "secondary"
    ELSE IF l.midterm THEN "midterm"
    ELSE IF l.final THEN "final"
    ELSE "unmatched"

\* which branch of the loop body takes the line l
LineKind(l, currentCourse) ==
    IF l.header THEN "header"
    ELSE IF l.orphan THEN "orphan"
    ELSE IF l.courseCodeStart THEN "main"
    ELSE IF l.sectionCodeStart /\ currentCourse # "" THEN "secondary"
    ELSE IF l.midterm /\ currentCourse # "" THEN "midterm"
    ELSE IF l.final /\ currentCourse # "" THEN "final"
    ELSE "unmatched"

\* the orphan-instructor branch without its write to events
NoBackfill(events, k, instructorName) == events

\* events[lastAddedEventIndex].instructor = instructorName, when it is empty
Backfill(events, k, instructorName) ==
    IF k > 0 /\ k <= Len(events) /\ events[k].instructor = ""
    THEN [events EXCEPT ![k].instructor = instructorName]
    ELSE events

\* the orphan branch without its check of currentInstructor
OverwriteInstructor(st, l) ==
    IF st.currentCourse # ""
    THEN [st EXCEPT !.currentInstructor = trim(l.text),
                    !.events = Backfill(st.events, st.lastAddedEventIndex, trim(l.text))]
    ELSE st

OnOrphanInstructor(st, l) ==
    IF st.currentCourse # "" /\ st.currentInstructor = ""
    THEN [st EXCEPT !.currentInstructor = trim(l.text),
                    !.events = Backfill(st.events, st.lastAddedEventIndex, trim(l.text))]
    ELSE st

\* the main-course branch keeping a carried instructor and section the line
\* does not replace
PushMainKeepCarried(st, event) ==
    [st EXCEPT !.currentCourse = event.courseCode,
               !.currentTitle = event.courseTitle,
               !.currentInstructor = IF event.instructor # "" THEN event.instructor ELSE @,
               !.currentSection = IF event.sectionCode # "" THEN event.sectionCode ELSE @,
               !.events = Append(st.events, event),
               !.lastAddedEventIndex = Len(st.events) + 1]

\* the main-course branch, event being parsed.event
PushMain(st, event) ==
    [st EXCEPT !.currentCourse = event.courseCode,
               !.currentTitle = event.courseTitle,
               !.currentInstructor = event.instructor,
               !.currentSection = event.sectionCode,
               !.events = Append(st.events, event),
               !.lastAddedEventIndex = Len(st.events) + 1]

OnMainCourse(st, l, q, y) == PushMain(st, parseMainCourseLine(l.fields, q, y))

\* the secondary-session branch with currentSection left as it was
PushSecondaryKeepSection(st, parsed) ==
    [st EXCEPT !.events = Append(st.events,
        IF parsed.sectionCode # "" THEN parsed
        ELSE [parsed EXCEPT !.sectionCode = st.currentSection])]

\* the secondary-session branch, parsed being the record of the line
PushSecondary(st, parsed) ==
    IF parsed.sectionCode # ""
    THEN [st EXCEPT !.currentSection = parsed.sectionCode,
                    !.events = Append(st.events, parsed)]
    ELSE [st EXCEPT !.events =
             Append(st.events, [parsed EXCEPT !.sectionCode = st.currentSection])]

OnSecondarySession(st, l, q, y) ==
    PushSecondary(st, parseSecondarySessionLine(l.fields, st.currentCourse,
                          st.currentTitle, st.currentInstructor, q, y))

OnMidterm(st, l, q, y) ==
    [st EXCEPT !.events = Append(st.events,
        parseMidtermLine(l.fields, st.currentCourse, st.currentTitle,
                         st.currentInstructor, st.currentSection, q, y))]

OnFinalExam(st, l, q, y) ==
    [st EXCEPT !.events = Append(st.events,
        parseFinalExamLine(l.fields, st.currentCourse, st.currentTitle,
                           st.currentInstructor, st.currentSection, q, y))]

\* one iteration of the for loop, kind being the branch that takes the line
ScanLine(st, l, kind, q, y) ==
    CASE kind = "orphan"    -> OnOrphanInstructor(st, l)
      [] kind = "main"      -> OnMainCourse(st, l, q, y)
      [] kind = "secondary" -> OnSecondarySession(st, l, q, y)
      [] kind = "midterm"   -> OnMidterm(st, l, q, y)
      [] kind = "final"     -> OnFinalExam(st, l, q, y)
      [] OTHER              -> st

RECURSIVE ScanFrom(_, _, _, _, _)
\* the for loop of parseWebRegFormat from line k on
ScanFrom(st, ls, k, q, y) ==
    IF k > Len(ls) THEN st
    ELSE ScanFrom(ScanLine(st, ls[k], LineKind(ls[k], st.currentCourse), q, y),
                  ls, k + 1, q, y)

parseWebRegFormat(text, q, y) ==
    ScanFrom(ScanStart, DetectAll(LinesOf(text)), 1, q, y).events

\* parsedEvents.length > 0 ? parsedEvents : this.createEmergencyFallback(...)
OrFallback(parsedEvents, q, y) ==
    IF Len(parsedEvents) > 0 THEN parsedEvents ELSE createEmergencyFallback(q, y)

parseTextToEvents(text, q, y) ==
    IF text = "" \/ Len(text) < MinTextLength THEN createEmergencyFallback(q, y)
    ELSE OrFallback(parseWebRegFormat(normalizeTextForParsing(text), q, y), q, y)

---------------------------------------------------------------------------
(* The built-in Date, in local time (googleCalendar.js)                    *)

\* a Date is the day number since 1 January 1970 and the minute of that day;
\* undefined, null and the Invalid Date are values of their own
undefined == [t |-> "undefined"]
NoDate == [t |-> "null"]
InvalidDate == [t |-> "invalid"]
DateValue(day, minute) == [t |-> "date", day |-> day, minute |-> minute]

IsLeapYear(y) == (y % 4 = 0 /\ y % 100 # 0) \/ y % 400 = 0

DaysInMonth(y, m) ==
    IF m = 2 THEN (IF IsLeapYear(y) THEN 29 ELSE 28)
    ELSE IF m \in {4, 6, 9, 11} THEN 30 ELSE 31

\* days from 1 January 1970 to 1 January of y
DaysBeforeYear(y) ==
    365 * (y - 1970) + (y - 1969) \div 4 - (y - 1901) \div 100 + (y - 1601) \div 400

RECURSIVE DaysBeforeMonth(_, _)
\* days from 1 January of y to the first of month m (1..12)
DaysBeforeMonth(y, m) ==
    IF m <= 1 THEN 0 ELSE DaysBeforeMonth(y, m - 1) + DaysInMonth(y, m - 1)

\* the year new Date(y, ...) takes y for: 0 to 99 are 1900 to 1999
FullYear(y) == IF 0 <= y /\ y <= 99 THEN 1900 + y ELSE y

\* new Date(y, monthIndex, d) with the month read as a month number
NewDateMonthNumber(y, monthIndex, d) ==
    DateValue(DaysBeforeYear(FullYear(y))
              + DaysBeforeMonth(FullYear(y), ((monthIndex + 11) % 12) + 1) + d - 1, 0)

\* new Date(y, monthIndex, d): local midnight; months past December and days
\* past the end of the month carry over
NewDate(y, monthIndex, d) ==
    DateValue(DaysBeforeYear(FullYear(y) + (monthIndex \div 12))
              + DaysBeforeMonth(FullYear(y) + (monthIndex \div 12), (monthIndex % 12) + 1)
              + d - 1, 0)

Years == 1900..2100

YearOfDay(day) ==
    CHOOSE y \in Years : DaysBeforeYear(y) <= day /\ day < DaysBeforeYear(y + 1)

MonthOfDay(y, dayOfYear) ==
    CHOOSE m \in 1..12 : /\ DaysBeforeMonth(y, m) <= dayOfYear
                         /\ dayOfYear < DaysBeforeMonth(y, m) + DaysInMonth(y, m)

\* getFullYear(), getMonth() + 1 and getDate() as padded text
CivilText(y, m, dayOfYear) ==
    NumStr(y) \o Pad2(m) \o Pad2(dayOfYear - DaysBeforeMonth(y, m) + 1)

CivilInYear(y, dayOfYear) == CivilText(y, MonthOfDay(y, dayOfYear), dayOfYear)

CivilOfDay(day, y) == CivilInYear(y, day - DaysBeforeYear(y))

\* getDay(): 1 January 1970 was a Thursday
getDay(date) == (date.day + 4) % 7

\* a <= b on Dates; a comparison with NaN is false
DateLE(a, b) ==
    /\ a.t = "date" /\ b.t = "date"
    /\ (a.day < b.day \/ (a.day = b.day /\ a.minute <= b.minute))

\* formatDateForICS
formatDateForICS(date) ==
    IF date.t \in {"undefined", "null"} THEN ""
    ELSE IF date.t = "invalid" THEN "NaNNaNNaN"
    ELSE CivilOfDay(date.day, YearOfDay(date.day))

\* formatDateTimeForICS; seconds are always zero
formatDateTimeForICS(date) ==
    IF date.t \in {"undefined", "null"} THEN ""
    ELSE IF date.t = "invalid" THEN "NaNNaNNaNTNaNNaNNaN"
    ELSE CivilOfDay(date.day, YearOfDay(date.day)) \o "T"
         \o Pad2(date.minute \div 60) \o Pad2(date.minute % 60) \o "00"

\* dateTime.setHours(hours, minutes, 0, 0); hours past 23 carry into the day
setHours(date, hours, minutes) ==
    IF date.t # "date" THEN InvalidDate
    ELSE DateValue(date.day + ((hours * 60 + minutes) \div 1440),
                   (hours * 60 + minutes) % 1440)

\* /(\d{1,2}):(\d{2})\s*(am|pm)/i on the lower-cased text
TimeOfDayRe ==
    <<Digits(1, 2), Lit(":"), Digits(2, 2), Cls(SpaceSet, 0, Many), Alt({"am", "pm"})>>

\* the conversion that adds 12 to every pm hour and leaves every am hour
Hours24NoTwelve(hours, period) == IF period = "pm" THEN hours + 12 ELSE hours

\* the conversion to the 24-hour clock
Hours24(hours, period) ==
    IF period = "pm" /\ hours # 12 THEN hours + 12
    ELSE IF period = "am" /\ hours = 12 THEN 0
    ELSE hours

TimeOnDate(lower, m, baseDate) ==
    setHours(baseDate, Hours24(parseInt(Group(lower, m, 1, 1)), Group(lower, m, 5, 5)),
             parseInt(Group(lower, m, 3, 3)))

MatchedTime(lower, baseDate) ==
    IF test(TimeOfDayRe, lower) THEN TimeOnDate(lower, match(TimeOfDayRe, lower), baseDate)
    ELSE NoDate

parseTimeToDate(timeStr, baseDate) ==
    IF timeStr = "" \/ baseDate.t \in {"undefined", "null"} THEN NoDate
    ELSE MatchedTime(toLowerCase(timeStr), baseDate)

---------------------------------------------------------------------------
(* GoogleCalendarAPI: the calendar document                                *)

\* the getQuarterDates that is in force: the class body defines the method
\* twice (lines 342 and 729) and the later definition replaces the earlier
QuarterTable(y) ==
    ("Fall" :> [start |-> "09/25/" \o y, recurringStart |-> "09/29/" \o y,
                end |-> "12/13/" \o y]) @@
    ("Winter" :> [start |-> "01/06/" \o y, recurringStart |-> "01/06/" \o y,
                  end |-> "03/21/" \o y]) @@
    ("Spring" :> [start |-> "03/31/" \o y, recurringStart |-> "03/31/" \o y,
                  end |-> "06/13/" \o y]) @@
    ("Summer Session 1" :> [start |-> "06/23/" \o y, recurringStart |-> "06/23/" \o y,
                            end |-> "08/01/" \o y]) @@
    ("Summer Session 2" :> [start |-> "08/04/" \o y, recurringStart |-> "08/04/" \o y,
                            end |-> "09/12/" \o y])

\* dates[quarter] || dates['Fall']
OrFall(dates, q) == IF q \in DOMAIN dates THEN dates[q] ELSE dates["Fall"]

getQuarterDates(q, y) == OrFall(QuarterTable(y), q)

\* const { name } = obj: a property the object lacks is undefined
Property(obj, name) == IF name \in DOMAIN obj THEN obj[name] ELSE undefined

\* parseWeekdays; every branch pushes distinct codes, so the Set changes nothing
parseWeekdays(daysStr) ==
    IF includes(daysStr, "MWF") THEN <<"MO", "WE", "FR">>
    ELSE IF includes(daysStr, "TTh") \/ includes(daysStr, "TuTh") THEN <<"TU", "TH">>
    ELSE IF includes(daysStr, "MW") THEN <<"MO", "WE">>
    ELSE (IF includes(daysStr, "M") THEN <<"MO">> ELSE <<>>)
         \o (IF includes(daysStr, "Tu") THEN <<"TU">> ELSE <<>>)
         \o (IF includes(daysStr, "W") THEN <<"WE">> ELSE <<>>)
         \o (IF includes(daysStr, "Th") THEN <<"TH">> ELSE <<>>)
         \o (IF includes(daysStr, "F") THEN <<"FR">> ELSE <<>>)

weekdayMap ==
    [MO |-> 1, TU |-> 2, WE |-> 3, TH |-> 4, FR |-> 5, SA |-> 6, SU |-> 0]

RECURSIVE FirstBeforeEnd(_, _, _)
\* the loop with current < endDate for its condition
FirstBeforeEnd(current, targetDay, endDate) ==
    IF ~(DateLE(current, endDate) /\ current # endDate) THEN NoDate
    ELSE IF getDay(current) = targetDay THEN current
    ELSE FirstBeforeEnd(DateValue(current.day + 1, current.minute), targetDay, endDate)

RECURSIVE FirstFrom(_, _, _)
\* the while loop of findFirstWeekdayInRange
FirstFrom(current, targetDay, endDate) ==
    IF ~DateLE(current, endDate) THEN NoDate
    ELSE IF getDay(current) = targetDay THEN current
    ELSE FirstFrom(DateValue(current.day + 1, current.minute), targetDay, endDate)

\* new Date(undefined) is the Invalid Date
findFirstWeekdayInRange(weekday, startDate, endDate) ==
    IF weekday \notin DOMAIN weekdayMap THEN NoDate
    ELSE FirstFrom(IF startDate.t = "date" THEN startDate ELSE InvalidDate,
                   weekdayMap[weekday], endDate)

\* parseInt gives a number on a digit group; NaN otherwise
IsNumber(s) == s # "" /\ \A k \in 1..Len(s) : Ch(s, k) \in DigitSet

\* const [month, day, examYear] = finalDate.split('/')
DateOfParts(parts) ==
    IF Len(parts) >= 3 /\ \A k \in 1..3 : IsNumber(parts[k])
    THEN NewDate(parseInt(parts[3]), parseInt(parts[1]) - 1, parseInt(parts[2]))
    ELSE InvalidDate

\* examDate of createFinalExamEvent
ExamDate(finalDate, y) ==
    IF includes(finalDate, "/") THEN DateOfParts(split(finalDate, "/"))
    ELSE NewDate(parseInt(y), 11, 15)

OrTBA(s) == IF s # "" THEN s ELSE "TBA"

\* the VEVENT of createFinalExamEvent, as its content lines
FinalExamLines(event, q, y, startDateTime, endDateTime) ==
    IF startDateTime.t = "null" \/ endDateTime.t = "null" THEN null
    ELSE <<"BEGIN:VEVENT",
           "UID:final-" \o RemoveSpaces(event.courseCode) \o "-" \o q \o "-" \o y
               \o "@ucsd.edu",
           "DTSTART;TZID=America/Los_Angeles:" \o formatDateTimeForICS(startDateTime),
           "DTEND;TZID=America/Los_Angeles:" \o formatDateTimeForICS(endDateTime),
           "SUMMARY:" \o event.courseCode \o " Final Exam",
           "DESCRIPTION:" \o getEventDescription(event),
           "LOCATION:" \o OrTBA(event.location),
           "STATUS:CONFIRMED", "TRANSP:OPAQUE", "END:VEVENT">>

FinalExamOn(event, q, y, examDate) ==
    FinalExamLines(event, q, y, parseTimeToDate(event.startTime, examDate),
                   parseTimeToDate(event.endTime, examDate))

createFinalExamEvent(event, q, y) ==
    IF event.finalDate = "" THEN null
    ELSE FinalExamOn(event, q, y, ExamDate(event.finalDate, y))

\* daysToUse of createWeeklyEvents
DaysToUse(days, sessionType) ==
    IF days # "" THEN days
    ELSE IF sessionType = "Lecture" THEN "MWF"
    ELSE IF sessionType = "Discussion" THEN "F"
    ELSE "MW"

\* the VEVENT createWeeklyEvents pushes for one weekday, if any
WeeklyLines(event, weekday, q, y, startDateTime, endDateTime, endDate) ==
    IF startDateTime.t = "null" \/ endDateTime.t = "null" THEN <<>>
    ELSE << <<"BEGIN:VEVENT",
              "UID:" \o RemoveSpaces(event.courseCode) \o "-" \o event.sessionType
                  \o "-" \o weekday \o "-" \o q \o "-" \o y \o "@ucsd.edu",
              "DTSTART;TZID=America/Los_Angeles:" \o formatDateTimeForICS(startDateTime),
              "DTEND;TZID=America/Los_Angeles:" \o formatDateTimeForICS(endDateTime),
              "RRULE:FREQ=WEEKLY;UNTIL=" \o formatDateForICS(endDate) \o "T235959Z",
              "SUMMARY:" \o getEventTitle(event),
              "DESCRIPTION:" \o getEventDescription(event),
              "LOCATION:" \o OrTBA(event.location),
              "STATUS:CONFIRMED", "TRANSP:OPAQUE", "END:VEVENT">> >>

WeeklyOn(event, weekday, q, y, firstOccurrence, endDate) ==
    IF firstOccurrence.t = "null" THEN <<>>
    ELSE WeeklyLines(event, weekday, q, y,
                     parseTimeToDate(event.startTime, firstOccurrence),
                     parseTimeToDate(event.endTime, firstOccurrence), endDate)

RECURSIVE WeeklyFrom(_, _, _, _, _, _, _)
\* the loop over icsWeekdays from the k-th on
WeeklyFrom(event, icsWeekdays, k, startDate, endDate, q, y) ==
    IF k > Len(icsWeekdays) THEN <<>>
    ELSE WeeklyOn(event, icsWeekdays[k], q, y,
                  findFirstWeekdayInRange(icsWeekdays[k], startDate, endDate), endDate)
         \o WeeklyFrom(event, icsWeekdays, k + 1, startDate, endDate, q, y)

\* const { startDate, endDate } = this.getQuarterDates(quarter, year)
WeeklyIn(event, q, y, dates) ==
    WeeklyFrom(event, parseWeekdays(DaysToUse(event.days, getNormalizedSessionType(event))),
               1, Property(dates, "startDate"), Property(dates, "endDate"), q, y)

createWeeklyEvents(event, q, y) == WeeklyIn(event, q, y, getQuarterDates(q, y))

---------------------------------------------------------------------------
(* generateICSFile.  The document is its VEVENT blocks in order, between a *)
(* fixed header and footer; each block and each icsEvents entry remembers  *)
(* in `from` the position of the record it was made for.                   *)

ICSStart == [blocks |-> <<>>, eventsCreated |-> 0, icsEvents |-> <<>>]

\* which way the loop body goes for event
ICSBranch(event, sessionType) ==
    IF event.courseCode = "" \/ event.startTime = "" \/ event.endTime = "" THEN "skip"
    ELSE IF sessionType = "Final Exam" THEN "final"
    ELSE IF sessionType \in {"Lecture", "Discussion", "Lab"} THEN "weekly"
    ELSE "other"

Tracked(event, k, type, title) ==
    [from |-> k, type |-> type, title |-> title, courseCode |-> event.courseCode,
     courseTitle |-> event.courseTitle, startTime |-> event.startTime,
     endTime |-> event.endTime, location |-> OrTBA(event.location),
     instructor |-> event.instructor]

\* if (finalEvent) { ... }
AddFinalExam(st, event, k, finalEvent) ==
    IF finalEvent = null THEN st
    ELSE [st EXCEPT
            !.blocks = Append(@, [from |-> k, lines |-> finalEvent]),
            !.eventsCreated = @ + 1,
            !.icsEvents = Append(@,
                Tracked(event, k, "Final Exam", event.courseCode \o " Final Exam")
                @@ [days |-> OrTBA(event.finalDay), date |-> OrTBA(event.finalDate),
                    recurrence |-> "One-time event"])]

\* the weekly branch; with blocks made, reading a date of an undefined
\* startDate or endDate throws and the catch leaves icsEvents as it was
AddWeekly(st, event, k, sessionType, weeklyEvents, dates) ==
    [st EXCEPT
       !.blocks = @ \o [n \in 1..Len(weeklyEvents) |->
                           [from |-> k, lines |-> weeklyEvents[n]]],
       !.eventsCreated = @ + Len(weeklyEvents),
       !.icsEvents =
           IF /\ Len(weeklyEvents) > 0
              /\ Property(dates, "startDate").t # "undefined"
              /\ Property(dates, "endDate").t # "undefined"
           THEN Append(@, Tracked(event, k, sessionType,
                                  event.courseCode \o " - " \o sessionType)
                          @@ [days |-> OrTBA(event.days), recurrence |-> "Weekly"])
           ELSE @]

\* the loop body with every record taken to have times: an empty time is
\* read as midnight
ProcessWithDefaultTimes(st, event, k, q, y) ==
    IF getNormalizedSessionType(event) = "Final Exam"
    THEN AddFinalExam(st, event, k,
             createFinalExamEvent(
                 [event EXCEPT !.startTime = IF @ = "" THEN "12:00am" ELSE @,
                               !.endTime = IF @ = "" THEN "12:00am" ELSE @], q, y))
    ELSE st

ProcessBranch(st, event, k, q, y, sessionType, branch) ==
    CASE branch = "final" -> AddFinalExam(st, event, k, createFinalExamEvent(event, q, y))
      [] branch = "weekly" ->
            AddWeekly(st, event, k, sessionType, createWeeklyEvents(event, q, y),
                      getQuarterDates(q, y))
      [] OTHER -> st

ProcessKind(st, event, k, q, y, sessionType) ==
    ProcessBranch(st, event, k, q, y, sessionType, ICSBranch(event, sessionType))

\* the body of the loop over events, event being events[k]
ProcessEvent(st, event, k, q, y) ==
    ProcessKind(st, event, k, q, y, getNormalizedSessionType(event))

RECURSIVE GenerateFrom(_, _, _, _, _)
GenerateFrom(st, events, k, q, y) ==
    IF k > Len(events) THEN st
    ELSE GenerateFrom(ProcessEvent(st, events[k], k, q, y), events, k + 1, q, y)

generateICSFile(events, q, y) == GenerateFrom(ICSStart, events, 1, q, y)

---------------------------------------------------------------------------
(* GoogleCalendarAPI: helpers of the Google Calendar requests              *)

\* patterns of parseDaysStringToArray
patterns ==
    [k \in {"MWF", "MW", "TuTh", "M", "Tu", "W", "Th", "F", "Sa", "Su"} |->
        CASE k = "MWF" -> <<"M", "W", "F">> [] k = "MW" -> <<"M", "W">>
          [] k = "TuTh" -> <<"Tu", "Th">> [] OTHER -> <<k>>]

\* patterns[daysStr] || ['M']
parseDaysStringToArray(daysStr) ==
    IF daysStr \in DOMAIN patterns THEN patterns[daysStr]
    ELSE IF daysStr \in InheritedProperties THEN ObjectMember(daysStr)
    ELSE <<"M">>

\* hours of parseTime after its two corrections, period being 'a' or 'p'
HoursOfPeriod(hours, period) ==
    IF period = "p" /\ hours # 12 THEN hours + 12
    ELSE IF period = "a" /\ hours = 12 THEN 0
    ELSE hours

\* parseTime with the bounds m of its match of /(\d{1,2}):(\d{2})([ap])/i
TimeOfMatch(lower, m) ==
    IF m = null THEN [hours |-> 9, minutes |-> 0]
    ELSE [hours |-> HoursOfPeriod(parseInt(Group(lower, m, 1, 1)), Group(lower, m, 4, 4)),
          minutes |-> parseInt(Group(lower, m, 3, 3))]

parseTime(timeStr) == TimeOfMatch(toLowerCase(timeStr), match(TimeAtoms, toLowerCase(timeStr)))
---------------------------------------------------------------------------
(* popup.js: review of missing information, results, edit, delete, export  *)

IsExam(e) == e.sessionType \in {"Final Exam", "Midterm"}

\* the fields checkForMissingInfo asks about for event e
IssuesOf(e) ==
    IF e.days = "TBA" /\ e.startTime = "" THEN {}
    ELSE (IF ~IsExam(e) /\ e.days \in {"", "MISSING_DAY"} THEN {"days"} ELSE {})
         \cup (IF e.startTime = "" THEN {"startTime"} ELSE {})
         \cup (IF e.endTime = "" THEN {"endTime"} ELSE {})
         \cup (IF \/ (e.sessionType = "Final Exam" /\ e.finalDate = "")
                  \/ (e.sessionType = "Midterm" /\ e.midtermDate = "")
               THEN {"examDate"} ELSE {})

\* checkForMissingInfo: for each position of events the issues of its review
\* card, {} where the event gets no card
checkForMissingInfo(events) == [k \in 1..Len(events) |-> IssuesOf(events[k])]

\* what the user enters in a field of a review card, when they fill it; the
\* date input's value is year-month-day
Entered ==
    [days |-> "MW", startTime |-> "9:00am", endTime |-> "10:00am",
     examDate |-> "2026-03-18"]

\* the apply-fixes handler on one card, filled being the fields with a value
ApplyCard(e, filled) ==
    [e EXCEPT
       !.days = IF "days" \in filled THEN Entered.days ELSE @,
       !.startTime = IF "startTime" \in filled THEN Entered.startTime ELSE @,
       !.endTime = IF "endTime" \in filled THEN Entered.endTime ELSE @,
       !.finalDate = IF "examDate" \in filled /\ e.sessionType = "Final Exam"
                     THEN Entered.examDate ELSE @,
       !.midtermDate = IF "examDate" \in filled /\ e.sessionType = "Midterm"
                       THEN Entered.examDate ELSE @]

\* the filter of the apply-fixes handler
IsValidAfterReview(e) ==
    \/ e.days = "TBA" \/ (e.startTime = "" /\ e.endTime = "")
    \/ /\ IsExam(e) \/ (e.days # "" /\ e.days # "MISSING_DAY")
       /\ e.startTime # "" /\ e.endTime # ""

isTBAEvent(e) ==
    IF IsExam(e)
    THEN e.startTime \in {"", "TBA"} \/ e.endTime \in {"", "TBA"}
    ELSE \/ e.days \in {"", "TBA", "MISSING_DAY"}
         \/ e.startTime \in {"", "TBA"} \/ e.endTime \in {"", "TBA"}

\* examDate.split('-') put together as month/day/year
SlashDate(parts) == parts[2] \o "/" \o parts[3] \o "/" \o parts[1]

\* saveEventChanges on event e; form holds the values of the modal's inputs.
\* building, room and instructor are saved as openEditModal filled them in
saveEventChanges(e, form) ==
    [e EXCEPT
       !.sessionType = form.sessionType,
       !.days = IF form.days # "" THEN form.days ELSE "TBA",
       !.startTime = form.startTime,
       !.endTime = form.endTime,
       !.location = IF e.building # "" /\ e.room # "" THEN e.building \o " " \o e.room
                    ELSE IF e.building # "" THEN e.building
                    ELSE IF e.room # "" THEN e.room ELSE "TBA",
       !.finalDate = IF form.examDate # "" /\ form.sessionType \in {"Final Exam", "Midterm"}
                     THEN SlashDate(split(form.examDate, "-")) ELSE @]

\* Array.prototype.splice(index, 1), positions counted from 1
splice(list, index) == SubSeq(list, 1, index - 1) \o SubSeq(list, index + 1, Len(list))

\* the records behind a list of references
Deref(objects, refs) == [k \in 1..Len(refs) |-> objects[refs[k]]]

NoHandler == [attached |-> FALSE, events |-> <<>>]
---------------------------------------------------------------------------
(* TextParser (textParser.js), the parser of the paste path of the popup.  *)
(* Its correctOCRDays, normalizeDays and splitDayTime are the text of      *)
(* ScheduleParser's and are the operators above; what differs is below,    *)
(* named textParser_ after the exported instance.                          *)

\* headerKeywords.filter(kw => lowerLine.includes(kw)).length >= 3
textParser_isHeaderRow(line) ==
    Cardinality({kw \in {"subject", "course", "section", "type", "instructor", "grade",
                         "units", "days", "time", "bldg", "room", "status"}
                 : includes(toLowerCase(line), kw)}) >= 3

\* /^[A-Z]{2,4}\s*\d{1,3}[A-Z]?\s*$/i.test(field?.trim() || '')
textParser_isCourseCodeLine(field) ==
    test(<<Bol, Cls(LowerSet, 2, 4), Cls(SpaceSet, 0, Many), Digits(1, 3),
           Cls(LowerSet, 0, 1), Cls(SpaceSet, 0, Many), Eol>>, toLowerCase(trim(field)))

\* /^[A-Z]\d{2,3}$/i.test(field?.trim() || '')
textParser_isSectionCodeLine(field) ==
    test(<<Bol, Cls(LowerSet, 1, 1), Digits(2, 3), Eol>>, toLowerCase(trim(field)))

\* /^(LE|DI|LA|FI|MI)$/i.test(field)
textParser_IsTypeField(field) == toUpperCase(field) \in {"LE", "DI", "LA", "FI", "MI"}

\* fields.some(f => /^(DI|LA)$/i.test(f.trim()))
textParser_looksLikeSecondaryLine(fields) ==
    \E k \in 1..Len(fields) : toUpperCase(trim(fields[k])) \in {"DI", "LA"}

\* /midterm|^MI\b/i.test(line)
textParser_isMidtermLine(line) ==
    \/ includes(toLowerCase(line), "midterm")
    \/ test(<<Bol, Lit("mi"), WordBoundary>>, toLowerCase(line))

\* /final\s*exam|^FI\b/i.test(line)
textParser_isFinalExamLine(line) ==
    \/ test(<<Lit("final"), Cls(SpaceSet, 0, Many), Lit("exam")>>, toLowerCase(line))
    \/ test(<<Bol, Lit("fi"), WordBoundary>>, toLowerCase(line))

textParser_excludeWords ==
    {"DROP", "CHANGE", "ENROLLED", "WAITLIST", "STATUS", "POSITION",
     "LE", "DI", "LA", "FI", "MI", "MWF", "TUTH", "ACTION",
     "L", "P", "NP", "TBA", "M", "W", "F"}

\* the members of the buildings list the fallback pattern does not cover
textParser_buildings == {"EBU3B", "EBU1", "EBU2", "MYR-A"}

\* buildings.includes(f) || /^[A-Z]{2,6}$/.test(f), f upper-cased, after the
\* exclusion
textParser_isBuildingCode(field) ==
    /\ toUpperCase(trim(field)) \notin textParser_excludeWords
    /\ \/ toUpperCase(trim(field)) \in textParser_buildings
       \/ test(<<Bol, Cls(UpperSet, 2, 6), Eol>>, toUpperCase(trim(field)))

\* isDaysField: not a building, no letter outside the day letters, and day
\* codes only once normalised
textParser_isDaysField(field) ==
    /\ field # ""
    /\ ~textParser_isBuildingCode(trim(field))
    /\ ~test(<<Cls(NotDayLetters, 1, 1)>>, toLowerCase(RemoveSpaces(trim(field))))
    /\ normalizeDays(trim(field)) # ""
    /\ IsDayCodeRun(toLowerCase(normalizeDays(trim(field))))

\* /^\d{3,4}[A-Z]?$/.test(field)
textParser_IsRoomField(field) ==
    test(<<Bol, Digits(3, 4), Cls(UpperSet, 0, 1), Eol>>, field)

\* map[type.toUpperCase()] || type
textParser_normalizeSessionType(type) ==
    CASE toUpperCase(type) = "LE" -> "Lecture"
      [] toUpperCase(type) = "DI" -> "Discussion"
      [] toUpperCase(type) = "LA" -> "Lab"
      [] toUpperCase(type) = "FI" -> "Final Exam"
      [] toUpperCase(type) = "MI" -> "Midterm"
      [] OTHER -> type

\* the object parseTimeRange builds of the groups of its match, the hours as
\* they are written and the periods lower-cased; s is the lower-cased text
textParser_TimesOf(s, m) ==
    IF m = null THEN [start |-> "", end |-> ""]
    ELSE [start |-> Group(s, m, 1, 1) \o ":" \o Group(s, m, 3, 3) \o Group(s, m, 4, 4) \o "m",
          end   |-> Group(s, m, 7, 7) \o ":" \o Group(s, m, 9, 9) \o Group(s, m, 10, 10) \o "m"]

\* timeRange.match(/(\d{1,2}):(\d{2})([ap])m?-?(\d{1,2}):(\d{2})([ap])m?/i)
textParser_parseTimeRange(timeRange) ==
    textParser_TimesOf(toLowerCase(timeRange),
                       match(TimeAtoms \o <<Alt({"m", ""}), Alt({"-", ""})>> \o TimeAtoms
                             \o <<Alt({"m", ""})>>, toLowerCase(timeRange)))

\* the branches the loops of parseMainCourseLine and parseSecondarySessionLine
\* share, from the concatenated day+time on
textParser_TimePlaceField(acc, field) ==
    IF splitDayTime(field) # null THEN SetDayTime(acc, splitDayTime(field))
    ELSE IF IsTimeRangeField(field) THEN [acc EXCEPT !.timeRange = field]
    ELSE IF textParser_isBuildingCode(field) THEN [acc EXCEPT !.building = field]
    ELSE IF textParser_isDaysField(field) THEN [acc EXCEPT !.days = normalizeDays(field)]
    ELSE IF textParser_IsRoomField(field) THEN [acc EXCEPT !.room = field]
    ELSE acc

\* /^[A-Z]\d{2,3}$/.test(field), upper case only
textParser_IsSectionField(field) == test(<<Bol, Cls(UpperSet, 1, 1), Digits(2, 3), Eol>>, field)

\* the loop body of parseSecondarySessionLine
textParser_SecondaryField(acc, field) ==
    IF field = "" THEN acc
    ELSE IF textParser_IsSectionField(field) THEN [acc EXCEPT !.sectionCode = field]
    ELSE IF textParser_IsTypeField(field)
         THEN [acc EXCEPT !.sessionType = textParser_normalizeSessionType(field)]
    ELSE textParser_TimePlaceField(acc, field)

\* the loop body of parseMainCourseLine: the instructor branch comes third
textParser_MainField(acc, field) ==
    IF field = "" THEN acc
    ELSE IF textParser_IsSectionField(field) THEN [acc EXCEPT !.sectionCode = field]
    ELSE IF textParser_IsTypeField(field)
         THEN [acc EXCEPT !.sessionType = textParser_normalizeSessionType(field)]
    ELSE IF includes(field, ",") /\ Len(field) > 3 /\ Ch(field, 1) \notin DigitSet
         THEN [acc EXCEPT !.instructor =
                  trim(IF Ch(field, Len(field)) = ":"
                       THEN substring(field, 1, Len(field) - 1) ELSE field)]
    ELSE textParser_TimePlaceField(acc, field)

\* the loop body of parseMidtermLine and of parseFinalExamLine
textParser_ExamField(acc, f) ==
    IF f = "" THEN acc
    ELSE IF dayDateMatch(f) # null THEN SetExamDay(acc, dayDateMatch(f))
    ELSE IF IsTimeRangeField(f) THEN [acc EXCEPT !.timeRange = f]
    ELSE IF textParser_isBuildingCode(f) THEN [acc EXCEPT !.building = f]
    ELSE IF textParser_IsRoomField(f) THEN [acc EXCEPT !.room = f]
    ELSE acc

RECURSIVE textParser_Fields(_, _, _, _)
\* a parser's for loop over fields[k..]; kind names the parser
textParser_Fields(acc, fields, k, kind) ==
    IF k > Len(fields) THEN acc
    ELSE textParser_Fields(CASE kind = "main" -> textParser_MainField(acc, trim(fields[k]))
                             [] kind = "secondary" -> textParser_SecondaryField(acc, trim(fields[k]))
                             [] OTHER -> textParser_ExamField(acc, trim(fields[k])),
                           fields, k + 1, kind)

\* fields[1] is the title unless it is a section code or a session type
textParser_HasTitle(fields) ==
    /\ Len(fields) >= 2 /\ fields[2] # ""
    /\ ~textParser_isSectionCodeLine(fields[2]) /\ ~textParser_IsTypeField(fields[2])

\* new CourseEvent({...}) of parseMainCourseLine, f being the locals after
\* the loop
textParser_MainEvent(f, courseCode, courseTitle, q, y) ==
    EventOf(f, textParser_parseTimeRange(f.timeRange),
            IF f.sessionType # "" THEN f.sessionType ELSE "Lecture",
            courseCode, courseTitle, f.sectionCode, f.instructor, f.days, q, y)

\* the event of the object parseMainCourseLine returns (courseCode is not
\* empty: the scan calls it on a line whose first field is a course code)
textParser_parseMainCourseLine(fields, q, y) ==
    textParser_MainEvent(textParser_Fields(NoFields, fields,
                                           IF textParser_HasTitle(fields) THEN 3 ELSE 2,
                                           "main"),
                         trim(fields[1]),
                         IF textParser_HasTitle(fields) THEN trim(fields[2]) ELSE "", q, y)

\* the record parseSecondarySessionLine makes of the locals f, null when the
\* day or the time is missing
textParser_SecondaryEvent(f, courseCode, courseTitle, instructor, q, y) ==
    IF f.days = "" \/ f.timeRange = "" THEN null
    ELSE EventOf(f, textParser_parseTimeRange(f.timeRange),
                 IF f.sessionType # "" THEN f.sessionType ELSE "Discussion",
                 courseCode, courseTitle, f.sectionCode, instructor, f.days, q, y)

textParser_parseSecondarySessionLine(fields, courseCode, courseTitle, instructor, q, y) ==
    textParser_SecondaryEvent(textParser_Fields(NoFields, fields, 1, "secondary"),
                              courseCode, courseTitle, instructor, q, y)

\* the record of an exam line: the section code is the session code
\* ('MI', 'FI'), the day of the exam is its days
textParser_ExamEvent(f, sessionType, code, courseCode, courseTitle, instructor, q, y) ==
    EventOf(f, textParser_parseTimeRange(f.timeRange), sessionType,
            courseCode, courseTitle, code, instructor, f.examDay, q, y)

textParser_parseMidtermLine(fields, courseCode, courseTitle, instructor, q, y) ==
    textParser_ExamEvent(textParser_Fields(NoFields, fields, 1, "exam"), "Midterm", "MI",
                         courseCode, courseTitle, instructor, q, y)

textParser_parseFinalExamLine(fields, courseCode, courseTitle, instructor, q, y) ==
    textParser_ExamEvent(textParser_Fields(NoFields, fields, 1, "exam"), "Final Exam", "FI",
                         courseCode, courseTitle, instructor, q, y)

\* String.prototype.split(/\r?\n/): a carriage return before a line feed goes
\* with it
textParser_SplitLines(text) ==
    [k \in 1..Len(split(text, "\n")) |->
        IF k < Len(split(text, "\n")) /\ Ch(split(text, "\n")[k], Len(split(text, "\n")[k])) = "\r"
        THEN substring(split(text, "\n")[k], 1, Len(split(text, "\n")[k]) - 1)
        ELSE split(text, "\n")[k]]

RECURSIVE textParser_NonBlank(_)
\* .filter(s => s.trim().length > 0)
textParser_NonBlank(parts) ==
    IF parts = <<>> THEN <<>>
    ELSE (IF trim(Head(parts)) = "" THEN <<>> ELSE <<Head(parts)>>)
         \o textParser_NonBlank(Tail(parts))

\* line.split(/\t/).map(f => f.trim()).filter(f => f.length > 0)
textParser_FieldsOf(line) == TrimAll(split(line, "\t"))

\* the locals of parseWebRegText before its loop; currentCourse null is ""
textParser_ScanStart ==
    [events |-> <<>>, currentCourse |-> "", currentTitle |-> "", currentInstructor |-> ""]

\* events.push(parsed) under if (parsed)
textParser_Push(st, parsed) ==
    IF parsed = null THEN st ELSE [st EXCEPT !.events = Append(@, parsed)]

\* the main-course branch of the loop
textParser_OnMain(st, parsed) ==
    [st EXCEPT !.currentCourse = parsed.courseCode, !.currentTitle = parsed.courseTitle,
               !.currentInstructor = parsed.instructor, !.events = Append(@, parsed)]

\* the body of the loop of parseWebRegText for one line and its fields
textParser_ScanLine(st, line, fields, q, y) ==
    IF textParser_isHeaderRow(line) \/ Len(fields) < 2 THEN st
    ELSE IF textParser_isCourseCodeLine(fields[1])
         THEN textParser_OnMain(st, textParser_parseMainCourseLine(fields, q, y))
    ELSE IF textParser_isMidtermLine(line) /\ st.currentCourse # ""
         THEN textParser_Push(st, textParser_parseMidtermLine(fields, st.currentCourse,
                                      st.currentTitle, st.currentInstructor, q, y))
    ELSE IF textParser_isFinalExamLine(line) /\ st.currentCourse # ""
         THEN textParser_Push(st, textParser_parseFinalExamLine(fields, st.currentCourse,
                                      st.currentTitle, st.currentInstructor, q, y))
    ELSE IF /\ textParser_isSectionCodeLine(fields[1]) \/ textParser_looksLikeSecondaryLine(fields)
            /\ st.currentCourse # ""
         THEN textParser_Push(st, textParser_parseSecondarySessionLine(fields, st.currentCourse,
                                      st.currentTitle, st.currentInstructor, q, y))
    ELSE st

RECURSIVE textParser_ScanFrom(_, _, _, _, _)
\* the for loop of parseWebRegText from line k on
textParser_ScanFrom(st, ls, k, q, y) ==
    IF k > Len(ls) THEN st
    ELSE textParser_ScanFrom(textParser_ScanLine(st, ls[k], textParser_FieldsOf(ls[k]), q, y),
                             ls, k + 1, q, y)

RECURSIVE textParser_Valid(_)
\* events.filter(event => event.isValid())
textParser_Valid(events) ==
    IF events = <<>> THEN <<>>
    ELSE (IF isValid(Head(events)) THEN <<Head(events)>> ELSE <<>>)
         \o textParser_Valid(Tail(events))

\* the events of the object parseWebRegText returns: none of a text whose
\* trimmed length is under 20
parseWebRegText(text, q, y) ==
    IF text = "" \/ Len(trim(text)) < 20 THEN <<>>
    ELSE textParser_Valid(textParser_ScanFrom(textParser_ScanStart,
                              textParser_NonBlank(textParser_SplitLines(text)), 1, q, y).events)
---------------------------------------------------------------------------
(* Specification Spec: ScheduleParser.parseTextToEvents on pasted texts    *)

\* at most this many lines in a text
MaxLines == 3

MainLine ==
    "CSE 100\tAdvanced Data Structures\tA00\tLE\tSahoo, Debashis\tL\t4.00\tMWF\t9:00a-9:50a\tPETER\t108"
SecondaryLine == "A01\tDI\tW\t8:00p-8:50p\tPETER\t108"
FinalLine == "Final Exam\tFI\tW 03/18/2026\t8:00a-10:59a\tPETER\t108"
\* a main-course line without section code and without instructor
BareMainLine == "MATH 18\tLinear Algebra\tLE\tTuTh\t2:00p-3:20p\tCENTR\t115"
\* a secondary line of a session still to be announced
TBALine == "B02\tDI"
MidtermTextLine == "Midterm\tMI\tSa 02/07/2026\t3:00p-4:50p\tPETER\t108"
\* a bare name, not the instructor of MainLine
NameLine == "Cao, Yingjun"
HeaderTextLine ==
    "Subject Course\tTitle\tSection Code\tType\tInstructor\tGrade Option\tUnits\tDays\tTime\tBLDG\tRoom"
NoiseLine == "Enrolled 4.00 units"

LineVocabulary ==
    {MainLine, SecondaryLine, FinalLine, BareMainLine, TBALine, MidtermTextLine,
     NameLine, HeaderTextLine, NoiseLine}

\* the texts a user can paste: up to MaxLines lines of the vocabulary
Texts ==
    {join(ls, "\n") : ls \in UNION {[1..n -> LineVocabulary] : n \in 0..MaxLines}}

Terms == {<<"Winter", "2026">>}

ParserIdle ==
    /\ rawText = "" /\ args = <<>>
    /\ lines = <<>> /\ i = 1 /\ scan = ScanStart /\ result = <<>>
ICSIdle == icsIn = <<>> /\ j = 1 /\ ics = ICSStart
PopupIdle ==
    /\ heap = <<>> /\ currentEvents = <<>> /\ review = <<>>
    /\ timers = <<>> /\ handler = NoHandler /\ passed = <<>>

\* the popup with a text pasted and a term selected
Init ==
    /\ pc = "start"
    /\ pasted = <<>> /\ api = ApiIdle
    /\ \E t \in Terms : quarter = t[1] /\ year = t[2]
    /\ rawText \in Texts
    /\ args = <<>>
    /\ lines = <<>> /\ i = 1 /\ scan = ScanStart /\ result = <<>>
    /\ ICSIdle /\ PopupIdle

ParserFrame ==
    UNCHANGED <<quarter, year, rawText, args, pasted, api, icsIn, j, ics, heap, currentEvents, review,
                timers, handler, passed>>

\* parseTextToEvents: !rawText || rawText.length < 50
InsufficientText ==
    /\ pc = "start"
    /\ rawText = "" \/ Len(rawText) < MinTextLength
    /\ result' = createEmergencyFallback(quarter, year)
    /\ pc' = "done"
    /\ UNCHANGED <<lines, i, scan>> /\ ParserFrame

\* parseTextToEvents normalizes; parseWebRegFormat splits and sets its locals
BeginScan ==
    /\ pc = "start"
    /\ ~(rawText = "" \/ Len(rawText) < MinTextLength)
    /\ lines' = DetectAll(LinesOf(normalizeTextForParsing(rawText)))
    /\ i' = 1 /\ scan' = ScanStart /\ pc' = "scan"
    /\ UNCHANGED result /\ ParserFrame

AtLine(kind) ==
    pc = "scan" /\ i <= Len(lines) /\ LineKind(lines[i], scan.currentCourse) = kind

NextLine == i' = i + 1 /\ UNCHANGED <<pc, lines, result>> /\ ParserFrame

HeaderLine == AtLine("header") /\ UNCHANGED scan /\ NextLine

OrphanInstructorLine ==
    AtLine("orphan") /\ scan' = OnOrphanInstructor(scan, lines[i]) /\ NextLine

MainCourseLine ==
    AtLine("main") /\ scan' = OnMainCourse(scan, lines[i], quarter, year) /\ NextLine

SecondarySessionLine ==
    AtLine("secondary") /\ scan' = OnSecondarySession(scan, lines[i], quarter, year)
    /\ NextLine

MidtermLine ==
    AtLine("midterm") /\ scan' = OnMidterm(scan, lines[i], quarter, year) /\ NextLine

FinalExamLine ==
    AtLine("final") /\ scan' = OnFinalExam(scan, lines[i], quarter, year) /\ NextLine

UnmatchedLine == AtLine("unmatched") /\ UNCHANGED scan /\ NextLine

\* parseTextToEvents: parsedEvents.length > 0
ReturnParsed ==
    /\ pc = "scan" /\ i > Len(lines) /\ Len(scan.events) > 0
    /\ result' = scan.events /\ pc' = "done"
    /\ UNCHANGED <<lines, i, scan>> /\ ParserFrame

ReturnFallback ==
    /\ pc = "scan" /\ i > Len(lines) /\ Len(scan.events) = 0
    /\ result' = createEmergencyFallback(quarter, year) /\ pc' = "done"
    /\ UNCHANGED <<lines, i, scan>> /\ ParserFrame

Next ==
    \/ InsufficientText \/ BeginScan
    \/ HeaderLine \/ OrphanInstructorLine \/ MainCourseLine \/ SecondarySessionLine
    \/ MidtermLine \/ FinalExamLine \/ UnmatchedLine
    \/ ReturnParsed \/ ReturnFallback

Spec == Init /\ [][Next]_vars


---------------------------------------------------------------------------
(* generateICSFile, record by record, on lists of records the parser makes *)

MaxEvents == 2

\* an exam line without a time, one without a date, a session without days
FinalNoTimeLine == "Final Exam\tFI\tW 03/18/2026"
FinalNoDateLine == "Final Exam\tFI\t8:00a-10:59a\tPETER\t108"
NoDayLine == "A03\tDI\t5:00p-5:50p\tPETER\t108"
\* a second final exam of the course, and one dated with a two-digit year
SecondFinalLine == "Final Exam\tFI\tF 03/20/2026\t3:00p-5:59p\tCENTR\t115"
ShortYearFinalLine == "Final Exam\tFI\tTh 03/19/26\t11:30a-2:29p\tPETER\t108"

SampleText ==
    join(<<MainLine, SecondaryLine, TBALine, NoDayLine, FinalLine, FinalNoTimeLine,
           FinalNoDateLine, MidtermTextLine, SecondFinalLine, ShortYearFinalLine>>, "\n")

ICSTerms == {<<"Winter", "2026">>, <<"Fall", "2025">>}

\* the records parseTextToEvents makes of SampleText, by term
SampleEvents == [t \in ICSTerms |-> parseTextToEvents(SampleText, t[1], t[2])]

EventLists(t) ==
    UNION {[1..n -> {SampleEvents[t][k] : k \in 1..Len(SampleEvents[t])}]
           : n \in 0..MaxEvents}

InitICS ==
    /\ pc = "ics"
    /\ pasted = <<>> /\ api = ApiIdle
    /\ \E t \in ICSTerms : quarter = t[1] /\ year = t[2] /\ icsIn \in EventLists(t)
    /\ j = 1 /\ ics = ICSStart
    /\ ParserIdle /\ PopupIdle

AtEvent(branch) ==
    /\ pc = "ics" /\ j <= Len(icsIn)
    /\ ICSBranch(icsIn[j], getNormalizedSessionType(icsIn[j])) = branch

NextEvent ==
    /\ ics' = ProcessEvent(ics, icsIn[j], j, quarter, year)
    /\ j' = j + 1
    /\ UNCHANGED <<pc, quarter, year, rawText, args, pasted, api, lines, i, scan, result, icsIn, heap,
                   currentEvents, review, timers, handler, passed>>

\* !event.courseCode || !event.startTime || !event.endTime
SkipMissingData == AtEvent("skip") /\ NextEvent

FinalExamEvent == AtEvent("final") /\ NextEvent

WeeklyEvents == AtEvent("weekly") /\ NextEvent

\* a session type that is neither an exam nor a weekly kind
OtherSession == AtEvent("other") /\ NextEvent

ReturnICS ==
    /\ pc = "ics" /\ j > Len(icsIn)
    /\ pc' = "icsdone"
    /\ UNCHANGED <<quarter, year, rawText, args, pasted, api, lines, i, scan, result, icsIn, j, ics, heap,
                   currentEvents, review, timers, handler, passed>>

NextICS ==
    \/ SkipMissingData \/ FinalExamEvent \/ WeeklyEvents \/ OtherSession \/ ReturnICS

SpecICS == InitICS /\ [][NextICS]_vars

---------------------------------------------------------------------------
(* The popup from processAndDisplayEvents on                               *)

MaxTimers == 2

\* the values of the edit modal's inputs the user may save
FormValues ==
    {[sessionType |-> "Lecture", days |-> "MW", startTime |-> "9:00am",
      endTime |-> "10:00am", examDate |-> ""],
     [sessionType |-> "Lecture", days |-> "", startTime |-> "",
      endTime |-> "", examDate |-> ""],
     [sessionType |-> "Final Exam", days |-> "", startTime |-> "9:00am",
      endTime |-> "10:00am", examDate |-> "2026-03-18"],
     [sessionType |-> "Final Exam", days |-> "", startTime |-> "9:00am",
      endTime |-> "10:00am", examDate |-> ""]}

\* the records the popup is handed: those of a main-course line, a session
\* to be announced, a session without days, a midterm, and final exams with
\* all, without a time, without a date and with a two-digit year
ShownEvents(t) == {SampleEvents[t][k] : k \in {1, 3, 4, 5, 6, 7, 8, 10}}

InitPopup ==
    /\ pc = "popup"
    /\ pasted = <<>> /\ api = ApiIdle
    /\ \E t \in Terms :
          /\ quarter = t[1] /\ year = t[2]
          /\ heap \in UNION {[1..n -> ShownEvents(t)] : n \in 1..MaxEvents}
    /\ currentEvents = <<>> /\ review = <<>>
    /\ timers = <<>> /\ handler = NoHandler /\ passed = <<>>
    /\ ParserIdle /\ ICSIdle

PopupFrame == UNCHANGED <<quarter, year, rawText, args, pasted, api, lines, i, scan, result, icsIn, j>>

\* displayScheduleResults(events, quarter, year), objects being the records
\* as the running handler leaves them: the page is written anew, so the new
\* download button has no handler until the timeout of setupExportButtons
displayScheduleResults(objects, events) ==
    /\ currentEvents' = events
    /\ timers' = Append(timers, SelectSeq(events, LAMBDA r : ~isTBAEvent(objects[r])))
    /\ handler' = NoHandler
    /\ pc' = "results"

\* processAndDisplayEvents(events, quarter, year)
ProcessAndDisplayEvents ==
    /\ pc = "popup"
    /\ IF \E k \in 1..Len(heap) : IssuesOf(heap[k]) # {}
       THEN /\ review' = [events |-> [k \in 1..Len(heap) |-> k],
                          cards |-> checkForMissingInfo(heap)]
            /\ pc' = "review"
            /\ UNCHANGED <<currentEvents, timers, handler>>
       ELSE /\ displayScheduleResults(heap, [k \in 1..Len(heap) |-> k])
            /\ UNCHANGED review
    /\ UNCHANGED <<heap, passed, ics>> /\ PopupFrame

\* what the apply-fixes handler does once the cards are read
AfterFixes(validEvents) ==
    IF validEvents = <<>>
    THEN UNCHANGED <<pc, currentEvents, review, timers, handler>>
    ELSE displayScheduleResults(heap', validEvents) /\ review' = <<>>

\* the apply-fixes handler; filled are the fields the user gave a value
ApplyFixes ==
    /\ pc = "review" /\ Len(timers) < MaxTimers
    /\ \E filled \in SUBSET {"days", "startTime", "endTime", "examDate"} :
          /\ heap' = [r \in 1..Len(heap) |->
                        IF review.cards[r] # {}
                        THEN ApplyCard(heap[r], filled \cap review.cards[r])
                        ELSE heap[r]]
          /\ AfterFixes(SelectSeq(review.events, LAMBDA r : IsValidAfterReview(heap'[r])))
    /\ UNCHANGED <<passed, ics>> /\ PopupFrame

AfterSkip(goodEvents) ==
    IF goodEvents = <<>>
    THEN UNCHANGED <<pc, currentEvents, review, timers, handler>>
    ELSE displayScheduleResults(heap, goodEvents) /\ review' = <<>>

\* the skip-problem-events handler
SkipProblemEvents ==
    /\ pc = "review" /\ Len(timers) < MaxTimers
    /\ AfterSkip(SelectSeq(review.events, LAMBDA r : review.cards[r] = {}))
    /\ UNCHANGED <<heap, passed, ics>> /\ PopupFrame

\* the edit modal's Save on the record at index
SaveEventChanges ==
    /\ pc = "results" /\ Len(timers) < MaxTimers
    /\ \E index \in 1..Len(currentEvents), form \in FormValues :
          /\ heap' = [heap EXCEPT ![currentEvents[index]] = saveEventChanges(@, form)]
          /\ displayScheduleResults(heap', currentEvents)
    /\ UNCHANGED <<review, passed, ics>> /\ PopupFrame

AfterDelete(rest) ==
    IF rest # <<>> THEN displayScheduleResults(heap, rest)
    ELSE /\ currentEvents' = rest /\ pc' = "empty" /\ handler' = NoHandler
         /\ UNCHANGED timers

\* deleteEvent(index), confirmed
DeleteEvent ==
    /\ pc = "results" /\ Len(timers) < MaxTimers
    /\ \E index \in 1..Len(currentEvents) : AfterDelete(splice(currentEvents, index))
    /\ UNCHANGED <<heap, review, passed, ics>> /\ PopupFrame

\* the timeout of setupExportButtons: the button on the page, if there is
\* one, gets a handler that holds the list the timeout was set with
ExportTimeout ==
    /\ timers # <<>>
    /\ timers' = Tail(timers)
    /\ handler' = IF pc = "results" THEN [attached |-> TRUE, events |-> Head(timers)]
                  ELSE handler
    /\ UNCHANGED <<pc, heap, currentEvents, review, passed, ics>> /\ PopupFrame

\* a click on the download button; the run ends with the first download
Download ==
    /\ pc = "results" /\ handler.attached
    /\ passed' = <<Deref(heap, handler.events)>>
    /\ ics' = generateICSFile(Deref(heap, handler.events), quarter, year)
    /\ pc' = "downloaded"
    /\ UNCHANGED <<heap, currentEvents, review, timers, handler>> /\ PopupFrame

NextPopup ==
    \/ ProcessAndDisplayEvents \/ ApplyFixes \/ SkipProblemEvents
    \/ SaveEventChanges \/ DeleteEvent \/ ExportTimeout \/ Download

SpecPopup == InitPopup /\ [][NextPopup]_vars

---------------------------------------------------------------------------
(* Properties                                                              *)

Last(s) == s[Len(s)]

\* the content line of a VEVENT that begins with prefix, "" if there is none
BlockLine(ls, prefix) ==
    IF \E n \in 1..Len(ls) : StartsAt(ls[n], 1, prefix)
    THEN ls[CHOOSE n \in 1..Len(ls) : StartsAt(ls[n], 1, prefix)]
    ELSE ""

\* the blocks of a document made for the record at position k
BlocksFrom(doc, k) == {n \in 1..Len(doc.blocks) : doc.blocks[n].from = k}

\* the year, month and day of a block's DTSTART
StartDay(ls) == substring(BlockLine(ls, "DTSTART"), 34, 41)

\* the three-line example: main course, discussion, final exam
ExampleText == join(<<MainLine, SecondaryLine, FinalLine>>, "\n")

ExampleParsed ==
    pc = "done" /\ rawText = ExampleText /\ quarter = "Winter" /\ year = "2026"

ExampleDocument(doc) ==
    /\ Cardinality(BlocksFrom(doc, 3)) = 1
    /\ \A n \in BlocksFrom(doc, 3) :
          /\ BlockLine(doc.blocks[n].lines, "RRULE") = ""
          /\ StartDay(doc.blocks[n].lines) = "20260318"

\* C1: the three-line Winter 2026 example parses to exactly three records
\* in source order -- a Lecture on MWF 9:00am-9:50am, a Discussion on W
\* 8:00pm-8:50pm of section A01, a Final Exam dated 03/18/2026 of section
\* A01 -- and generateICSFile on them emits for the exam exactly one VEVENT,
\* without RRULE, whose DTSTART is on 2026-03-18.
C1_EndToEnd ==
    ExampleParsed =>
        /\ Len(result) = 3
        /\ result[1].sessionType = "Lecture" /\ result[1].days = "MWF"
        /\ result[1].startTime = "9:00am" /\ result[1].endTime = "9:50am"
        /\ result[2].sessionType = "Discussion" /\ result[2].days = "W"
        /\ result[2].startTime = "8:00pm" /\ result[2].endTime = "8:50pm"
        /\ result[2].sectionCode = "A01"
        /\ result[3].sessionType = "Final Exam" /\ result[3].finalDate = "03/18/2026"
        /\ result[3].sectionCode = "A01"
        /\ ExampleDocument(generateICSFile(result, quarter, year))

C1_Witness ==
    /\ ExampleParsed /\ Len(result) = 3
    /\ Len(generateICSFile(result, quarter, year).blocks) = 1

RECURSIVE ExpectedSection(_, _, _, _)
RECURSIVE SectionAt(_, _, _, _, _)
\* the section code an exam line inherits when the lines before it end with
\* line k: that of the nearest secondary-session line before it in which the
\* line parser finds a section code, else that of the main-course line
ExpectedSection(ls, k, q, y) ==
    IF k < 1 THEN "" ELSE SectionAt(ls, k, q, y, LineKind(ls[k], "course"))

SectionAt(ls, k, q, y, kind) ==
    IF kind = "main" THEN parseMainCourseLine(ls[k].fields, q, y).sectionCode
    ELSE IF /\ kind = "secondary"
            /\ parseSecondarySessionLine(ls[k].fields, "", "", "", q, y).sectionCode # ""
         THEN parseSecondarySessionLine(ls[k].fields, "", "", "", q, y).sectionCode
    ELSE ExpectedSection(ls, k - 1, q, y)

FirstOnOrAfter(text, weekday) ==
    CHOOSE d \in {DateValue(DateOfParts(split(text, "/")).day + n, 0) : n \in 0..6} :
        getDay(d) = weekdayMap[weekday]

HasRealDays(e) == e.days \notin {"", "TBA", "MISSING_DAY"}

\* C3: for every Lecture, Discussion or Lab record with start and end times
\* and a day pattern, and every weekday of the pattern, the document holds a
\* VEVENT made for the record whose DTSTART is on the first date on or after
\* the term's first instructional date that falls on that weekday and whose
\* RRULE is weekly until the term's last instructional date (both dates
\* from getQuarterDates).
C3_WeeklyEvents ==
    pc = "icsdone" =>
        \A k \in 1..Len(icsIn) :
            (/\ ICSBranch(icsIn[k], getNormalizedSessionType(icsIn[k])) = "weekly"
             /\ HasRealDays(icsIn[k])) =>
            \A w \in 1..Len(parseWeekdays(icsIn[k].days)) :
                \E n \in BlocksFrom(ics, k) :
                    /\ StartDay(ics.blocks[n].lines) =
                           formatDateForICS(FirstOnOrAfter(
                               getQuarterDates(quarter, year).recurringStart,
                               parseWeekdays(icsIn[k].days)[w]))
                    /\ BlockLine(ics.blocks[n].lines, "RRULE") =
                           "RRULE:FREQ=WEEKLY;UNTIL="
                           \o formatDateForICS(DateOfParts(
                                  split(getQuarterDates(quarter, year).end, "/")))
                           \o "T235959Z"

HasExamDate(e) == e.finalDate # "" \/ (e.sessionType = "Midterm" /\ e.midtermDate # "")

\* C4: for every Midterm or Final Exam record with an exam date and start
\* and end times the document holds exactly one VEVENT made for it, and that
\* VEVENT has no RRULE.
C4_ExamOnce ==
    pc = "icsdone" =>
        \A k \in 1..Len(icsIn) :
            (/\ getNormalizedSessionType(icsIn[k]) \in {"Midterm", "Final Exam"}
             /\ HasExamDate(icsIn[k])
             /\ icsIn[k].startTime # "" /\ icsIn[k].endTime # "") =>
            /\ Cardinality(BlocksFrom(ics, k)) = 1
            /\ \A n \in BlocksFrom(ics, k) : BlockLine(ics.blocks[n].lines, "RRULE") = ""

\* text with backslash, semicolon, comma and line break in their escaped forms
EscapedText(s) ==
    MapChars(s, [c \in {"\\", ";", ",", "\n", "\r"} |->
                    IF c \in {"\n", "\r"} THEN "\\n" ELSE "\\" \o c])

\* C5: in every VEVENT of the document the DESCRIPTION value is the record's
\* description with backslash, semicolon, comma and line breaks escaped, so
\* that no raw line break, comma or semicolon of the description is in it.
C5_DescriptionEscaped ==
    \A n \in 1..Len(ics.blocks) :
        BlockLine(ics.blocks[n].lines, "DESCRIPTION:") =
            "DESCRIPTION:" \o EscapedText(getEventDescription(icsIn[ics.blocks[n].from]))

\* C6: for an empty or under-length text parseTextToEvents returns a result
\* with no session record in it.
C6_NoFabricatedRecord ==
    (pc = "done" /\ (rawText = "" \/ Len(rawText) < MinTextLength)) => result = <<>>

\* a record with all that the calendar document is made of
IsComplete(e) ==
    /\ e.courseCode # "" /\ e.sessionType # ""
    /\ e.startTime # "" /\ e.endTime # ""
    /\ (getNormalizedSessionType(e) \in {"Lecture", "Discussion", "Lab"} => HasRealDays(e))
    /\ (getNormalizedSessionType(e) \in {"Midterm", "Final Exam"} => HasExamDate(e))

\* C7: every record of every list the download handler passes to
\* generateICSFile is complete.
C7_OnlyCompleteRecords ==
    \A n \in 1..Len(passed) : \A k \in 1..Len(passed[n]) : IsComplete(passed[n][k])

\* C8: no VEVENT of the document, no entry of icsEvents and no count of
\* eventsCreated comes from a record whose start or end time is empty.
C8_NoEventWithoutTime ==
    /\ \A n \in 1..Len(ics.blocks) :
          icsIn[ics.blocks[n].from].startTime # "" /\ icsIn[ics.blocks[n].from].endTime # ""
    /\ \A n \in 1..Len(ics.icsEvents) :
          /\ icsIn[ics.icsEvents[n].from].startTime # ""
          /\ icsIn[ics.icsEvents[n].from].endTime # ""
    /\ ics.eventsCreated = Len(ics.blocks)

C8_Witness ==
    /\ pc = "icsdone" /\ Len(ics.blocks) > 0
    /\ \E k \in 1..Len(icsIn) :
          /\ icsIn[k].startTime = "" /\ icsIn[k].finalDate # ""
          /\ getNormalizedSessionType(icsIn[k]) = "Final Exam"

\* C9: when a main-course line without instructor is followed immediately by
\* a name-only line, the Lecture record emitted for the main-course line has
\* the name as its instructor and the carried instructor is the name.
C9_OrphanBackfill ==
    [][(/\ OrphanInstructorLine /\ i > 1
        /\ LineKind(lines[i - 1], "") = "main"
        /\ parseMainCourseLine(lines[i - 1].fields, quarter, year).instructor = "")
       => /\ Last(scan'.events).instructor = lines[i].text
          /\ Last(scan'.events).sessionType = Last(scan.events).sessionType
          /\ scan'.currentInstructor = lines[i].text]_vars

C9_Witness ==
    /\ pc = "done" /\ Len(lines) >= 2
    /\ LineKind(lines[1], "") = "main" /\ lines[2].text = NameLine
    /\ parseMainCourseLine(lines[1].fields, quarter, year).instructor = ""
    /\ result[1].instructor = NameLine

\* C10: when an orphan-instructor line is processed while the carried
\* instructor is empty, the most recently emitted record of the current
\* course gets the name, if its instructor is empty -- also when that record
\* is a secondary-session or exam record.
C10_BackfillMostRecent ==
    [][(/\ OrphanInstructorLine
        /\ scan.currentCourse # "" /\ scan.currentInstructor = ""
        /\ Len(scan.events) > 0
        /\ Last(scan.events).courseCode = scan.currentCourse
        /\ Last(scan.events).instructor = "")
       => Last(scan'.events).instructor = lines[i].text]_vars

---------------------------------------------------------------------------
(* Orphan-instructor lines once the instructor is known                    *)

\* C11: once the carried instructor of the course block is non-empty,
\* processing an orphan-instructor line leaves the carried course code, title,
\* instructor and section and every record already emitted unchanged, and
\* emits no record.
C11_OrphanDiscarded ==
    [][(OrphanInstructorLine /\ scan.currentInstructor # "")
       => /\ scan'.currentCourse = scan.currentCourse
          /\ scan'.currentTitle = scan.currentTitle
          /\ scan'.currentInstructor = scan.currentInstructor
          /\ scan'.currentSection = scan.currentSection
          /\ scan'.events = scan.events]_vars

\* a name line read after a main-course line that named its instructor
C11_Witness ==
    /\ pc = "scan" /\ i = 3 /\ Len(lines) >= 2
    /\ lines[1].text = MainLine /\ lines[2].text = NameLine
    /\ LineKind(lines[2], scan.currentCourse) = "orphan"
    /\ scan.currentInstructor = "Sahoo, Debashis"
    /\ Len(scan.events) = 1 /\ scan.events[1].instructor = "Sahoo, Debashis"

---------------------------------------------------------------------------
(* Specification SpecDays: normalizeDays and parseWeekdays on day tokens   *)

\* at most this many characters in an arbitrary token
MaxDayLen == 3
\* at most this many weekday codes in a canonical pattern
MaxCodes == 3

\* the letters of the weekday codes in both spellings, E for a misread F,
\* white space, a trailing artifact, a digit and a letter of no weekday
DayChars == {"M", "T", "u", "h", "W", "F", "E", "S", "a", "t", " ", "l", "1", "x"}
DayCodes == {"M", "Tu", "W", "Th", "F", "Sa", "Su"}

DayStrings == {join(cs, "") : cs \in UNION {[1..n -> DayChars] : n \in 0..MaxDayLen}}

CanonicalPatterns ==
    {join(cs, "") : cs \in UNION {[1..n -> DayCodes] : n \in 1..MaxCodes}}

\* the ways a pattern is written: letter case, white space, F read as E
CaseOf(p, c) ==
    CASE c = "upper" -> toUpperCase(p)
      [] c = "lower" -> toLowerCase(p)
      [] c = "swapped" -> MapChars(p, LowerTable @@ UpperTable)
      [] OTHER -> p

RECURSIVE Spaced(_, _)
\* s with sep between every two characters
Spaced(s, sep) ==
    IF Len(s) <= 1 THEN s
    ELSE Ch(s, 1) \o sep \o Spaced(substring(s, 2, Len(s)), sep)

SpacedOf(s, sp) ==
    CASE sp = "every" -> Spaced(s, " ")
      [] sp = "first" /\ Len(s) > 1 -> Ch(s, 1) \o "  " \o substring(s, 2, Len(s))
      [] sp = "last" /\ Len(s) > 1 ->
            substring(s, 1, Len(s) - 1) \o "\t" \o Ch(s, Len(s))
      [] OTHER -> s

MisreadOf(s, e) ==
    IF e THEN MapChars(s, [c \in {"F", "f"} |-> IF c = "F" THEN "E" ELSE "e"]) ELSE s

Variant(p, c, sp, e) == SpacedOf(MisreadOf(CaseOf(p, c), e), sp)

DayVariants ==
    {Variant(p, c, sp, e) : p \in CanonicalPatterns,
                            c \in {"asis", "upper", "lower", "swapped"},
                            sp \in {"none", "every", "first", "last"},
                            e \in BOOLEAN}

\* the patterns of the combination table, and words that are no day token
TablePatterns == {combinationMappings[k] : k \in DOMAIN combinationMappings}
PlainWords == {"constructor", "Constructor", "TBA", "MISSING_DAY"}

DayInputs == DayStrings \cup DayVariants \cup TablePatterns \cup PlainWords

\* a value of the language: a string, or what is no string
JSString(s) == [type |-> "string", value |-> s]
JSObject(member) ==
    [type |-> IF member.inherited = "constructor" THEN "function" ELSE "object",
     value |-> member.inherited]
JSThrown(error) == [type |-> "thrown", value |-> error]

\* the token as the lookups of normalizeDays see it
CleanLower(dayString) == toLowerCase(correctOCRDays(RemoveSpaces(dayString)))

\* normalizeDays called with any value: a value that is no string has no
\* replace method, and the call at step 1 throws
normalizeDaysOf(v) ==
    IF v.type # "string" THEN JSThrown("TypeError")
    ELSE IF v.value # "" /\ CleanLower(v.value) \in InheritedProperties
         THEN JSObject(normalizeDays(v.value))
    ELSE JSString(normalizeDays(v.value))

DaysFrame ==
    UNCHANGED <<quarter, year, rawText, args, pasted, api, lines, i, scan, icsIn, j, ics, heap,
                currentEvents, review, timers, handler, passed>>

\* a day token as a field of a line holds it; result collects what the calls return
InitDays ==
    /\ pc = "days"
    /\ pasted = <<>> /\ api = ApiIdle
    /\ quarter = "Winter" /\ year = "2026"
    /\ rawText \in DayInputs
    /\ args = <<>>
    /\ lines = <<>> /\ i = 1 /\ scan = ScanStart /\ result = <<>>
    /\ ICSIdle /\ PopupIdle

\* days = this.normalizeDays(field)
NormalizeDays ==
    /\ pc = "days"
    /\ result' = <<normalizeDaysOf(JSString(rawText))>>
    /\ pc' = "normalized"
    /\ DaysFrame

\* cleanDays / isDaysPattern: normalizeDays on what normalizeDays returned
NormalizeAgain ==
    /\ pc = "normalized"
    /\ result' = Append(result, normalizeDaysOf(result[1]))
    /\ pc' = "again"
    /\ DaysFrame

\* createWeeklyEvents: this.parseWeekdays(daysToUse) on the days of a record
ParseWeekdays ==
    /\ pc = "normalized" /\ result[1].type = "string" /\ result[1].value # ""
    /\ result' = Append(result, [type |-> "array", value |-> parseWeekdays(result[1].value)])
    /\ pc' = "weekdays"
    /\ DaysFrame

NextDays == NormalizeDays \/ NormalizeAgain \/ ParseWeekdays

SpecDays == InitDays /\ [][NextDays]_vars

---------------------------------------------------------------------------
(* The day-token normalizer and the weekday list of a pattern              *)

\* the weekday code a lower-case code stands for
CodeOf ==
    [c \in {"m", "tu", "w", "th", "f", "sa", "su"} |->
        toUpperCase(Ch(c, 1)) \o substring(c, 2, Len(c))]

PutFirst(code, rest) == [ok |-> rest.ok, codes |-> <<code>> \o rest.codes]

RECURSIVE Decode(_, _)
\* lower from index k read strictly as a run of weekday codes: no code is the
\* beginning of another, so there is at most one reading
Decode(lower, k) ==
    IF k > Len(lower) THEN [ok |-> TRUE, codes |-> <<>>]
    ELSE IF k < Len(lower) /\ substring(lower, k, k + 1) \in {"tu", "th", "sa", "su"}
         THEN PutFirst(CodeOf[substring(lower, k, k + 1)], Decode(lower, k + 2))
    ELSE IF Ch(lower, k) \in {"m", "w", "f"}
         THEN PutFirst(CodeOf[Ch(lower, k)], Decode(lower, k + 1))
    ELSE [ok |-> FALSE, codes |-> <<>>]

\* the canonical pattern a token is a variant of: case, white space and the
\* reading of F as E put aside
PatternOf(text) ==
    Decode(toLowerCase(MapChars(RemoveSpaces(text), [c \in {"E", "e"} |-> "f"])), 1)

\* C12: normalizeDays is idempotent: normalizeDays(normalizeDays(x)) equals
\* normalizeDays(x) for every input string x, also when nothing of x is
\* recognised and x itself is returned.
C12_Idempotent == pc = "again" => result[2] = result[1]

\* C13: for every variant of a canonical day pattern p (a concatenation of
\* weekday codes) in letter case, white space and the reading of F as E,
\* normalizeDays returns p.
C13_Canonicalizes ==
    (pc = "normalized" /\ PatternOf(rawText).ok /\ PatternOf(rawText).codes # <<>>)
    => result[1] = JSString(join(PatternOf(rawText).codes, ""))

C13_Witness ==
    /\ pc = "normalized" /\ rawText = "m w e"
    /\ PatternOf(rawText).codes = <<"M", "W", "F">>
    /\ result[1] = JSString("MWF")

\* the token, white space removed and OCR-corrected, still holds a character
\* that belongs to no weekday code, and is no entry of the combination table
HasLeftover(text) ==
    /\ text # ""
    /\ ~Decode(CleanLower(text), 1).ok
    /\ CleanLower(text) \notin DOMAIN combinationMappings \cup InheritedProperties

\* C14: for an input that after white-space removal and OCR correction still
\* holds a character of no weekday code, normalizeDays returns the invalid
\* signal (the empty string, or the input given back as it is); it never
\* returns a pattern put together from the characters it recognises.
C14_RejectsLeftover ==
    (pc = "normalized" /\ HasLeftover(rawText))
    => result[1] \in {JSString(""), JSString(rawText)}

RRuleCode == [M |-> "MO", Tu |-> "TU", W |-> "WE", Th |-> "TH", F |-> "FR", Sa |-> "SA", Su |-> "SU"]

Elements(s) == {s[k] : k \in 1..Len(s)}

\* C17: for every canonical day pattern p the parsers can emit, parseWeekdays(p)
\* returns exactly the weekdays p names, one RRULE code for each and no other.
C17_WeekdaysOfPattern ==
    (pc = "weekdays" /\ Decode(toLowerCase(result[1].value), 1).ok)
    => /\ Elements(result[2].value)
            = {RRuleCode[c] : c \in Elements(Decode(toLowerCase(result[1].value), 1).codes)}
       /\ Cardinality(Elements(result[2].value)) = Len(result[2].value)

---------------------------------------------------------------------------
(* Specification SpecTime: a time range token through parseTimeRange and   *)
(* parseTimeToDate                                                         *)

\* the minutes the tokens are written with
MinuteSamples == {0, 30, 50, 59}

\* H:MMx with H in 1..12
ClockTexts ==
    {NumStr(h) \o ":" \o Pad2(m) \o x : h \in 1..12, m \in MinuteSamples, x \in {"a", "p"}}

TimeTokens == {s \o "-" \o e : s \in ClockTexts, e \in ClockTexts}

\* the day the times are put on: the exam date of the example, 18 March 2026
TimeBase == NewDate(2026, 2, 18)

TimeFrame ==
    UNCHANGED <<quarter, year, rawText, args, pasted, api, lines, i, scan, icsIn, j, ics, heap,
                currentEvents, review, timers, handler, passed>>

InitTime ==
    /\ pc = "time"
    /\ pasted = <<>> /\ api = ApiIdle
    /\ quarter = "Winter" /\ year = "2026"
    /\ rawText \in TimeTokens
    /\ args = <<>>
    /\ lines = <<>> /\ i = 1 /\ scan = ScanStart /\ result = <<>>
    /\ ICSIdle /\ PopupIdle

\* const times = this.parseTimeRange(timeRange)
ParseTimeRange ==
    /\ pc = "time"
    /\ result' = <<parseTimeRange(rawText)>>
    /\ pc' = "range"
    /\ TimeFrame

\* parseTimeToDate(event.startTime, date) and parseTimeToDate(event.endTime, date)
ParseTimeToDate ==
    /\ pc = "range"
    /\ result' = Append(result, [start |-> parseTimeToDate(result[1].start, TimeBase),
                                 end |-> parseTimeToDate(result[1].end, TimeBase)])
    /\ pc' = "clock"
    /\ TimeFrame

NextTime == ParseTimeRange \/ ParseTimeToDate

SpecTime == InitTime /\ [][NextTime]_vars

\* hour, minute and meridiem marker of a text H:MMx
ClockOf(text) ==
    [hour |-> parseInt(split(text, ":")[1]),
     minute |-> parseInt(substring(split(text, ":")[2], 1, 2)),
     marker |-> Ch(split(text, ":")[2], 3)]

\* the minute of the day H:MM a/p stands for
MinuteOfDay(c) ==
    60 * (CASE c.marker = "a" /\ c.hour = 12 -> 0
            [] c.marker = "a" /\ c.hour # 12 -> c.hour
            [] c.marker = "p" /\ c.hour = 12 -> 12
            [] OTHER -> c.hour + 12)
    + c.minute

\* C15: for every token H:MMx-H:MMy with H in 1..12 and markers a/p, the
\* start and end that parseTimeRange makes are put by parseTimeToDate at hour
\* 0 for 12 am, 12 for 12 pm, H+12 for another pm hour and H for another am
\* hour, with the minutes unchanged, on the day given.
C15_TwentyFourHour ==
    pc = "clock"
    => /\ result[2].start
            = DateValue(TimeBase.day, MinuteOfDay(ClockOf(split(rawText, "-")[1])))
       /\ result[2].end
            = DateValue(TimeBase.day, MinuteOfDay(ClockOf(split(rawText, "-")[2])))

C15_Witness ==
    /\ pc = "clock" /\ rawText = "12:00a-12:50p"
    /\ result[1] = [start |-> "12:00am", end |-> "12:50pm"]
    /\ result[2].start.minute = 0 /\ result[2].end.minute = 12 * 60 + 50
    /\ formatDateTimeForICS(result[2].start) = "20260318T000000"

---------------------------------------------------------------------------
(* Specification SpecRange: findFirstWeekdayInRange on ranges of dates     *)

\* the longest range, in days
MaxSpan == 8

\* Thursday 25 September 2025 and the six days after it, at midnight or 10:00
RangeStarts == {DateValue(NewDate(2025, 8, 25).day + k, m) : k \in 0..6, m \in {0, 600}}

\* from the day before the start to MaxSpan days after it
RangeEnds(start) == {DateValue(start.day + n, m) : n \in (-1)..MaxSpan, m \in {0, 600}}

WeekdayCodes == {"MO", "TU", "WE", "TH", "FR", "SA", "SU", "XX"}

RangeFrame ==
    UNCHANGED <<quarter, year, rawText, args, pasted, api, lines, i, scan, icsIn, j, ics, heap,
                currentEvents, review, timers, handler, passed>>

InitRange ==
    /\ pc = "range"
    /\ pasted = <<>> /\ api = ApiIdle
    /\ quarter = "Fall" /\ year = "2025"
    /\ rawText = ""
    /\ \E w \in WeekdayCodes, s \in RangeStarts :
          \E e \in RangeEnds(s) : args = [weekday |-> w, startDate |-> s, endDate |-> e]
    /\ lines = <<>> /\ i = 1 /\ scan = ScanStart /\ result = <<>>
    /\ ICSIdle /\ PopupIdle

\* const firstOccurrence = this.findFirstWeekdayInRange(weekday, startDate, endDate)
FindFirstWeekday ==
    /\ pc = "range"
    /\ result' = <<findFirstWeekdayInRange(args.weekday, args.startDate, args.endDate)>>
    /\ pc' = "found"
    /\ RangeFrame

NextRange == FindFirstWeekday

SpecRange == InitRange /\ [][NextRange]_vars

\* the weekday of a day, counted from Thursday 25 September 2025
WeekOrder == <<"SU", "MO", "TU", "WE", "TH", "FR", "SA">>
WeekdayOfDay(d) == WeekOrder[((d - NewDate(2025, 8, 25).day + 4) % 7) + 1]

\* the days of the range that fall on the weekday, the time of day of the
\* start kept
HitsIn(call) ==
    {d \in call.startDate.day..call.endDate.day :
        /\ WeekdayOfDay(d) = call.weekday
        /\ \/ d < call.endDate.day
           \/ (d = call.endDate.day /\ call.startDate.minute <= call.endDate.minute)}

Least(S) == CHOOSE d \in S : \A e \in S : d <= e

\* C16: for valid dates and a known weekday code, findFirstWeekdayInRange
\* returns the earliest date d with start <= d <= end that falls on the
\* weekday, and null exactly when the range holds none; for an unknown weekday
\* code it returns null.
C16_FirstWeekday ==
    pc = "found"
    => IF args.weekday \notin Elements(WeekOrder) \/ HitsIn(args) = {}
       THEN result[1] = NoDate
       ELSE result[1] = DateValue(Least(HitsIn(args)), args.startDate.minute)

\* the first Friday on or after Monday 29 September 2025
C16_Witness ==
    /\ pc = "found" /\ args.weekday = "FR"
    /\ formatDateForICS(args.startDate) = "20250929"
    /\ formatDateForICS(result[1]) = "20251003"

---------------------------------------------------------------------------
(* Identifiers and exam dates of the calendar document                     *)

\* the positions of a list hold pairwise different records
DistinctRecords(events) ==
    \A a, b \in 1..Len(events) : a # b => events[a] # events[b]

\* C18: in the document generateICSFile returns for a list of pairwise
\* different records of one term, no two VEVENT blocks have the same UID.
C18_DistinctUIDs ==
    (pc = "icsdone" /\ DistinctRecords(icsIn)) =>
        \A a, b \in 1..Len(ics.blocks) :
            a # b => BlockLine(ics.blocks[a].lines, "UID:")
                         # BlockLine(ics.blocks[b].lines, "UID:")

\* the century a two-digit year of the term's time is in
FourDigitYear(y) == IF Len(y) = 2 THEN "20" \o y ELSE y

\* the year, month and day (as in a DTSTART) that a record's exam date names,
\* written month/day/year or year-month-day
ExamDayText(examDate) ==
    IF includes(examDate, "/")
    THEN FourDigitYear(split(examDate, "/")[3])
         \o Pad2(parseInt(split(examDate, "/")[1]))
         \o Pad2(parseInt(split(examDate, "/")[2]))
    ELSE split(examDate, "-")[1] \o split(examDate, "-")[2] \o split(examDate, "-")[3]

\* the year, month and day of a block's DTEND
EndDay(ls) == substring(BlockLine(ls, "DTEND"), 32, 39)

\* C19: every VEVENT of a downloaded document that was made for a Final Exam
\* record starts and ends on the exam date of that record, whether the date
\* was parsed (with a four-digit or a two-digit year), entered in the review
\* form or entered in the edit modal.
C19_ExamOnItsDate ==
    pc = "downloaded" =>
        \A n \in 1..Len(ics.blocks) :
            getNormalizedSessionType(passed[1][ics.blocks[n].from]) = "Final Exam" =>
                /\ StartDay(ics.blocks[n].lines)
                       = ExamDayText(passed[1][ics.blocks[n].from].finalDate)
                /\ EndDay(ics.blocks[n].lines)
                       = ExamDayText(passed[1][ics.blocks[n].from].finalDate)

---------------------------------------------------------------------------
(* The secondary-session parser by itself                                  *)

MaxFields == 3

\* tokens with a day: single days and a day joined to its time range
DayFieldTexts == {"W", "Tu", "W8:00p-8:50p"}

\* tokens with a time range, as the schedule page writes them
TimeFieldTexts == {"5:00p-5:50p", "11:30a-2:29p", "W8:00p-8:50p"}

\* the fields of the lines: a section code, a session code, day and time
\* tokens, a building, a room and the to-be-announced mark
FieldTexts == {"A01", "DI", "PETER", "108", "TBA"} \cup DayFieldTexts \cup TimeFieldTexts

FieldLists == UNION {[1..n -> FieldTexts] : n \in 0..MaxFields}

SecondaryFrame ==
    UNCHANGED <<quarter, year, rawText, args, pasted, api, lines, i, scan, icsIn, j, ics, heap,
                currentEvents, review, timers, handler, passed>>

InitSecondary ==
    /\ pc = "secondary"
    /\ pasted = <<>> /\ api = ApiIdle
    /\ quarter = "Winter" /\ year = "2026"
    /\ rawText = ""
    /\ \E fields \in FieldLists :
          args = [fields |-> fields, courseCode |-> "CSE 100",
                  courseTitle |-> "Advanced Data Structures",
                  instructor |-> "Sahoo, Debashis"]
    /\ lines = <<>> /\ i = 1 /\ scan = ScanStart /\ result = <<>>
    /\ ICSIdle /\ PopupIdle

\* this.parseSecondarySessionLine(fields, currentCourse, currentTitle,
\* currentInstructor, quarter, year)
ParseSecondarySessionLine ==
    /\ pc = "secondary"
    /\ result' = <<parseSecondarySessionLine(args.fields, args.courseCode,
                       args.courseTitle, args.instructor, quarter, year)>>
    /\ pc' = "record"
    /\ SecondaryFrame

NextSecondary == ParseSecondarySessionLine

SpecSecondary == InitSecondary /\ [][NextSecondary]_vars

\* the positions of the fields that are in a set of tokens
FieldsIn(fields, tokens) == {k \in 1..Len(fields) : fields[k] \in tokens}

\* the time range of a token: what follows its day letter, if it has one
RangeOfField(field) ==
    IF Ch(field, 1) \in DigitSet THEN field ELSE substring(field, 2, Len(field))

\* the start and end a time range H:MMx-H:MMx names, written H:MMxm
TimesNamed(range) ==
    [start |-> split(range, "-")[1] \o "m", end |-> split(range, "-")[2] \o "m"]

\* a record, as against null
IsRecord(v) == DOMAIN v = DOMAIN CourseEvent([courseCode |-> ""])

\* C20: parseSecondarySessionLine returns a record for every line; for a
\* line with a time range and no day token the record's days are MISSING_DAY
\* and its times are those of the line's last time range; for a line with
\* neither its days are TBA and its times are empty; and the days of a record
\* are never anything but a marker or the day of a day token of the line.
C20_SentinelsNotGuesses ==
    pc = "record" =>
        /\ IsRecord(result[1])
        /\ (FieldsIn(args.fields, DayFieldTexts) = {}
            /\ FieldsIn(args.fields, TimeFieldTexts) # {}) =>
               /\ result[1].days = "MISSING_DAY"
               /\ \E k \in FieldsIn(args.fields, TimeFieldTexts) :
                     /\ \A m \in FieldsIn(args.fields, TimeFieldTexts) : m <= k
                     /\ result[1].startTime = TimesNamed(RangeOfField(args.fields[k])).start
                     /\ result[1].endTime = TimesNamed(RangeOfField(args.fields[k])).end
        /\ (FieldsIn(args.fields, DayFieldTexts) = {}
            /\ FieldsIn(args.fields, TimeFieldTexts) = {}) =>
               /\ result[1].days = "TBA"
               /\ result[1].startTime = "" /\ result[1].endTime = ""
        /\ result[1].days \in {"MISSING_DAY", "TBA"}
                                \cup {substring(args.fields[k], 1,
                                                IF Ch(args.fields[k], 2) = "u" THEN 2 ELSE 1)
                                      : k \in FieldsIn(args.fields, DayFieldTexts)}

C20_Witness ==
    /\ pc = "record"
    /\ args.fields = <<"A01", "5:00p-5:50p", "PETER">>
    /\ result[1].days = "MISSING_DAY"
    /\ result[1].startTime = "5:00pm" /\ result[1].endTime = "5:50pm"

---------------------------------------------------------------------------
(* Exam records, defaults and course blocks                                *)

\* C21: every Midterm or Final Exam record that parseTextToEvents returns has
\* an empty day pattern; the weekday of the exam is in finalDay only.
C21_ExamWithoutDays ==
    pc = "done" =>
        \A k \in 1..Len(result) :
            result[k].sessionType \in {"Midterm", "Final Exam"} => result[k].days = ""

---------------------------------------------------------------------------
(* Specification SpecDefaults: what calendar synthesis makes of a day       *)
(* pattern and of a time text                                              *)

\* day patterns of records: patterns of the parsers, none, and the markers
DefaultDays == {"", "M", "Tu", "W", "Th", "F", "Sa", "MW", "MWF", "TuTh", "WF", "TBA", "MISSING_DAY"}

\* time texts: written times, none, and texts without a time
DefaultTimes == {"", "2:00p", "10:30a", "12:00a", "12:15p", "9:00am", "TBA", "noon"}

DefaultKinds == {"Lecture", "Discussion", "Lab"}

DefaultsFrame ==
    UNCHANGED <<quarter, year, rawText, args, pasted, api, lines, i, scan, icsIn, j, ics, heap,
                currentEvents, review, timers, handler, passed>>

InitDefaults ==
    /\ pc = "defaults"
    /\ pasted = <<>> /\ api = ApiIdle
    /\ quarter = "Winter" /\ year = "2026"
    /\ rawText = ""
    /\ \E d \in DefaultDays, t \in DefaultTimes, s \in DefaultKinds :
          args = [days |-> d, time |-> t, sessionType |-> s]
    /\ lines = <<>> /\ i = 1 /\ scan = ScanStart /\ result = <<>>
    /\ ICSIdle /\ PopupIdle

\* createWeeklyEvents up to const icsWeekdays = this.parseWeekdays(daysToUse)
WeekdaysToUse ==
    /\ pc = "defaults"
    /\ result' = <<parseWeekdays(DaysToUse(args.days, args.sessionType))>>
    /\ pc' = "icsWeekdays"
    /\ DefaultsFrame

\* this.parseDaysStringToArray(days)
ParseDaysStringToArray ==
    /\ pc = "defaults"
    /\ result' = <<parseDaysStringToArray(args.days)>>
    /\ pc' = "daysArray"
    /\ DefaultsFrame

\* this.parseTime(timeStr)
ParseTime ==
    /\ pc = "defaults"
    /\ result' = <<parseTime(args.time)>>
    /\ pc' = "timeOfDay"
    /\ DefaultsFrame

NextDefaults == WeekdaysToUse \/ ParseDaysStringToArray \/ ParseTime

SpecDefaults == InitDefaults /\ [][NextDefaults]_vars

\* the weekday codes a day pattern names, none for a text that is no pattern
NamedDays(days) == IF Decode(toLowerCase(days), 1).ok
                   THEN Elements(Decode(toLowerCase(days), 1).codes) ELSE {}

\* a text holds a time of day: digits, a colon, two digits and a or p
HoldsTime(text) ==
    \E k \in 1..Len(text) :
        /\ k + 4 <= Len(text)
        /\ Ch(text, k) \in DigitSet /\ Ch(text, k + 1) = ":"
        /\ Ch(text, k + 2) \in DigitSet /\ Ch(text, k + 3) \in DigitSet
        /\ Ch(text, k + 4) \in {"a", "p", "A", "P"}

\* C22: the weekdays createWeeklyEvents goes through are weekdays of the
\* record's day pattern, the weekdays parseDaysStringToArray returns are
\* weekdays of its argument, and parseTime returns no time of day for a text
\* that holds none.
C22_NoDefaults ==
    /\ pc = "icsWeekdays" =>
          Elements(result[1]) \subseteq {RRuleCode[c] : c \in NamedDays(args.days)}
    /\ pc = "daysArray" => Elements(result[1]) \subseteq NamedDays(args.days)
    /\ (pc = "timeOfDay" /\ ~HoldsTime(args.time)) => "hours" \notin DOMAIN result[1]

\* the positions before k of the lines that are main-course lines
MainLinesBefore(ls, k) == {m \in 1..(k - 1) : LineKind(ls[m], "") = "main"}

\* the record the line parser makes of the nearest main-course line before k
NearestMain(ls, k, q, y) ==
    parseMainCourseLine(
        ls[CHOOSE m \in MainLinesBefore(ls, k) : \A n \in MainLinesBefore(ls, k) : n <= m].fields,
        q, y)

\* C23: every record of the scan and of the result has a course code; a
\* secondary-session, midterm or final-exam line emits a record only when a
\* main-course line precedes it, and the record's course code and title are
\* those of the nearest preceding main-course line.
C23_CourseRequired ==
    /\ [](/\ \A k \in 1..Len(scan.events) : scan.events[k].courseCode # ""
          /\ \A k \in 1..Len(result) : result[k].courseCode # "")
    /\ [][(SecondarySessionLine \/ MidtermLine \/ FinalExamLine) =>
            /\ MainLinesBefore(lines, i) # {}
            /\ Len(scan'.events) = Len(scan.events) + 1
            /\ Last(scan'.events).courseCode
                   = NearestMain(lines, i, quarter, year).courseCode
            /\ Last(scan'.events).courseTitle
                   = NearestMain(lines, i, quarter, year).courseTitle]_vars

C23_Witness ==
    /\ pc = "done"
    /\ rawText = join(<<FinalLine, MainLine, SecondaryLine>>, "\n")
    /\ Len(result) = 2
    /\ result[2].courseCode = "CSE 100" /\ result[2].sessionType = "Discussion"

---------------------------------------------------------------------------
(* Specification SpecExam: a main-course line followed by exam lines       *)

MaxExamLines == 2

\* exam lines with nothing but their words
BareFinalLine == "Final Exam\tFI"
BareMidtermLine == "Midterm"

ExamLineVocabulary ==
    {FinalLine, MidtermTextLine, FinalNoTimeLine, FinalNoDateLine, BareFinalLine,
     BareMidtermLine}

\* a main-course line, with or without instructor, and exam lines after it
ExamTexts ==
    {join(<<m>> \o ls, "\n") :
        m \in {MainLine, BareMainLine},
        ls \in UNION {[1..n -> ExamLineVocabulary] : n \in 1..MaxExamLines}}

InitExam ==
    /\ pc = "start"
    /\ pasted = <<>> /\ api = ApiIdle
    /\ \E t \in Terms : quarter = t[1] /\ year = t[2]
    /\ rawText \in ExamTexts
    /\ args = <<>>
    /\ lines = <<>> /\ i = 1 /\ scan = ScanStart /\ result = <<>>
    /\ ICSIdle /\ PopupIdle

\* the steps of parseTextToEvents that these texts lead to
NextExam ==
    \/ BeginScan \/ OrphanInstructorLine \/ MainCourseLine
    \/ MidtermLine \/ FinalExamLine \/ ReturnParsed

SpecExam == InitExam /\ [][NextExam]_vars

\* the line has the word midterm, or MI as a whole field
SaysMidterm(l) ==
    includes(toLowerCase(l.text), "midterm") \/ \E k \in 1..Len(l.fields) : l.fields[k] = "MI"

\* the line has the words final exam, or FI as a whole field
SaysFinal(l) ==
    includes(toLowerCase(l.text), "final exam") \/ \E k \in 1..Len(l.fields) : l.fields[k] = "FI"

\* C24: while a course is active, the step of the scan at a line that says
\* midterm or final exam appends exactly one record, of kind Midterm or Final
\* Exam, and changes neither the carried instructor nor a record emitted
\* before.
C24_ExamLineEmits ==
    [][(/\ pc = "scan" /\ i <= Len(lines) /\ scan.currentCourse # ""
        /\ SaysMidterm(lines[i]) \/ SaysFinal(lines[i]))
       => /\ Len(scan'.events) = Len(scan.events) + 1
          /\ Last(scan'.events).sessionType \in {"Midterm", "Final Exam"}
          /\ scan'.currentInstructor = scan.currentInstructor
          /\ \A k \in 1..Len(scan.events) : scan'.events[k] = scan.events[k]]_vars

---------------------------------------------------------------------------
(* Specification SpecDayField: lines that carry a day pattern as a field   *)

\* the single days and the combinations the normalizer knows
FieldPatterns ==
    {"M", "Tu", "W", "Th", "F", "Sa", "Su"}
    \cup {combinationMappings[k] : k \in DOMAIN combinationMappings}

FieldTimes == {"9:00a-9:50a", "11:30a-2:29p"}
FieldPlaces == {<<"PETER", "108">>, <<"CENTR">>, <<>>}

\* the fields of a main-course line and of a secondary-session line with the
\* day pattern d, the time range t and the place p
DayFieldLines(d, t, p) ==
    [main |-> <<"CSE 100", "Advanced Data Structures", "A00", "LE", "Sahoo, Debashis",
                "L", "4.00", d, t>> \o p,
     secondary |-> <<"A01", "DI", d, t>> \o p]

InitDayField ==
    /\ pc \in {"main", "secondary"}
    /\ pasted = <<>> /\ api = ApiIdle
    /\ quarter = "Winter" /\ year = "2026"
    /\ rawText = ""
    /\ \E d \in FieldPatterns, t \in FieldTimes, p \in FieldPlaces :
          args = [fields |-> DayFieldLines(d, t, p)[pc], days |-> d,
                  courseCode |-> "CSE 100", courseTitle |-> "Advanced Data Structures",
                  instructor |-> "Sahoo, Debashis"]
    /\ lines = <<>> /\ i = 1 /\ scan = ScanStart /\ result = <<>>
    /\ ICSIdle /\ PopupIdle

\* const parsed = this.parseMainCourseLine(fields, quarter, year)
ParseMainCourseLine ==
    /\ pc = "main"
    /\ result' = <<parseMainCourseLine(args.fields, quarter, year)>>
    /\ pc' = "record"
    /\ SecondaryFrame

NextDayField == ParseMainCourseLine \/ ParseSecondarySessionLine

SpecDayField == InitDayField /\ [][NextDayField]_vars

\* C25: the record of a main-course or secondary-session line that carries a
\* valid day pattern as a field of its own has that pattern for its days; the
\* pattern is not its building and its days are not MISSING_DAY.
C25_DayFieldIsDays ==
    (pc = "record" /\ "days" \in DOMAIN args) =>
        /\ result[1].days = args.days
        /\ result[1].building # args.days
        /\ result[1].days # "MISSING_DAY"

---------------------------------------------------------------------------
(* The review of missing information                                       *)

\* a record lacks a value it needs: the day pattern of a weekly session, a
\* start or end time, the date of an exam; a session to be announced, with
\* neither days nor start time, lacks nothing
LacksValue(e) ==
    /\ ~(e.days = "TBA" /\ e.startTime = "")
    /\ \/ e.sessionType \in {"Lecture", "Discussion", "Lab"} /\ e.days \in {"", "MISSING_DAY"}
       \/ e.startTime = "" \/ e.endTime = ""
       \/ e.sessionType \in {"Midterm", "Final Exam"} /\ ~HasExamDate(e)

\* C26: processAndDisplayEvents reports for review exactly the records that
\* lack a required value.
C26_ReportsOnlyMissing ==
    [][ProcessAndDisplayEvents =>
         \A k \in 1..Len(heap) :
             (pc' = "review" /\ review'.cards[k] # {}) <=> LacksValue(heap[k])]_vars

---------------------------------------------------------------------------
(* Specification SpecAgree: one text given to both parsers                 *)

\* lines after the first of a text
MaxFollowing == 2

\* well-formed lines, each with its day or exam date and its time
AgreeLines == {MainLine, BareMainLine, SecondaryLine, MidtermTextLine, FinalLine}

\* texts of a main-course line and up to MaxFollowing lines more
AgreeTexts ==
    {t \in {join(<<m>> \o rest, "\n") :
               m \in {MainLine, BareMainLine},
               rest \in UNION {[1..n -> AgreeLines] : n \in 0..MaxFollowing}}
     : Len(t) >= MinTextLength}

InitAgree ==
    /\ pc = "pasted"
    /\ pasted = <<>> /\ api = ApiIdle
    /\ \E t \in ICSTerms : quarter = t[1] /\ year = t[2]
    /\ rawText \in AgreeTexts
    /\ args = <<>>
    /\ lines = <<>> /\ i = 1 /\ scan = ScanStart /\ result = <<>>
    /\ ICSIdle /\ PopupIdle

AgreeFrame ==
    UNCHANGED <<quarter, year, rawText, args, api, lines, i, scan, icsIn, j, ics, heap,
                currentEvents, review, timers, handler, passed>>

\* scheduleParser.parseTextToEvents(rawText, quarter, year)
ParseTextToEvents ==
    /\ pc = "pasted"
    /\ result' = parseTextToEvents(rawText, quarter, year)
    /\ pc' = "scheduleParser"
    /\ UNCHANGED pasted
    /\ AgreeFrame

\* textParser.parseWebRegText(rawText, quarter, year).events
ParseWebRegText ==
    /\ pc = "scheduleParser"
    /\ pasted' = parseWebRegText(rawText, quarter, year)
    /\ pc' = "textParser"
    /\ UNCHANGED result
    /\ AgreeFrame

NextAgree == ParseTextToEvents \/ ParseWebRegText

SpecAgree == InitAgree /\ [][NextAgree]_vars

\* what the two lists of records are compared in
Compared(e) ==
    [courseCode |-> e.courseCode, kind |-> getNormalizedSessionType(e),
     sectionCode |-> e.sectionCode, instructor |-> e.instructor, days |-> e.days,
     startTime |-> e.startTime, endTime |-> e.endTime, location |-> e.location,
     finalDate |-> e.finalDate]

\* C27: on a text of at least 50 characters whose lines are well-formed
\* main-course, secondary-session, midterm and final-exam lines, each with its
\* day or exam date and its time, TextParser.parseWebRegText and
\* ScheduleParser.parseTextToEvents return the same records in the same order,
\* equal in course code, session kind, section code, instructor, day pattern,
\* start and end time, location and exam date.
C27_ParsersAgree ==
    pc = "textParser" =>
        /\ Len(pasted) = Len(result)
        /\ \A k \in 1..Len(result) : Compared(pasted[k]) = Compared(result[k])

---------------------------------------------------------------------------
(* Course blocks of parseWebRegFormat                                      *)

\* the position of the main-course line that opens the block line k is in
BlockStart(ls, k) ==
    CHOOSE m \in MainLinesBefore(ls, k + 1) : \A n \in MainLinesBefore(ls, k + 1) : n <= m

\* the texts of the lines b..k and of their fields, a letter O of a section
\* code read as the digit
TextsOfBlock(ls, b, k) ==
    UNION {{trim(ls[m].text)}
           \cup {ls[m].fields[f] : f \in 1..Len(ls[m].fields)}
           \cup {MapChars(ls[m].fields[f], [c \in {"O"} |-> "0"]) : f \in 1..Len(ls[m].fields)}
           : m \in b..k}

\* the records of the scan that a step added or changed
Touched(before, after) ==
    {k \in 1..Len(after) : k > Len(before) \/ after[k] # before[k]}

\* C28: a main-course line replaces the carried course code, title, instructor
\* and section of parseWebRegFormat by the values of the line, instructor and
\* section being empty when the line has none; so a record made or changed in
\* a course block has no instructor and no section code other than those
\* written in the lines of that block.
C28_BlockIsolation ==
    /\ [][MainCourseLine =>
            /\ scan'.currentCourse = trim(lines[i].fields[1])
            /\ scan'.currentTitle = Last(scan'.events).courseTitle
            /\ scan'.currentInstructor = Last(scan'.events).instructor
            /\ scan'.currentSection = Last(scan'.events).sectionCode
            /\ (\A f \in 1..Len(lines[i].fields) : ~includes(lines[i].fields[f], ","))
                   => scan'.currentInstructor = ""
            /\ (\A f \in 1..Len(lines[i].fields) : ~IsSectionField(lines[i].fields[f]))
                   => scan'.currentSection = ""]_vars
    /\ [][pc = "scan" /\ pc' = "scan" /\ MainLinesBefore(lines, i + 1) # {} =>
            \A k \in Touched(scan.events, scan'.events) :
                /\ scan'.events[k].instructor
                       \in {""} \cup TextsOfBlock(lines, BlockStart(lines, i), i)
                /\ scan'.events[k].sectionCode
                       \in {""} \cup TextsOfBlock(lines, BlockStart(lines, i), i)]_vars

\* a final exam after a main-course line without instructor and section that
\* follows a course with both
C28_Witness ==
    /\ pc = "done"
    /\ rawText = join(<<MainLine, BareMainLine, FinalLine>>, "\n")
    /\ Len(result) = 3
    /\ result[1].instructor = "Sahoo, Debashis" /\ result[1].sectionCode = "A00"
    /\ result[3].courseCode = "MATH 18"
    /\ result[3].instructor = "" /\ result[3].sectionCode = ""

---------------------------------------------------------------------------
(* The result of parseTextToEvents is never empty                          *)

\* C29: parseTextToEvents never returns an empty list: of a text shorter than
\* 50 characters, and of a text no line of which makes a record, it returns
\* exactly one placeholder record with course code 'EXAMPLE 101'; so the
\* events.length > 0 test of the image-processing handler never fails.
C29_NeverEmpty ==
    pc = "done" =>
        /\ Len(result) > 0
        /\ (Len(rawText) < 50 \/ scan.events = <<>>)
               => Len(result) = 1 /\ result[1].courseCode = "EXAMPLE 101"

\* a text long enough, made of a header line, of which no line makes a record
C29_Witness ==
    /\ pc = "done"
    /\ rawText = HeaderTextLine
    /\ Len(rawText) >= 50 /\ scan.events = <<>>
    /\ Len(result) = 1 /\ result[1].courseCode = "EXAMPLE 101"

---------------------------------------------------------------------------
(* Specification SpecSync: googleCalendarAPI.createMultipleEvents          *)

\* at most this many events in eventsData
MaxSync == 3

\* the event data of a call, identified by course and session
SyncEvents ==
    { [courseCode |-> "CSE 100", sessionType |-> "Lecture"],
      [courseCode |-> "CSE 100", sessionType |-> "Discussion"],
      [courseCode |-> "MATH 18", sessionType |-> "Lecture"] }

SyncLists == UNION {[1..n -> SyncEvents] : n \in 0..MaxSync}

\* const results = { created: [], failed: [], total: eventsData.length }
NewResults(eventsData) == [created |-> <<>>, failed |-> <<>>, total |-> Len(eventsData)]

\* results.created.push({ original: eventData, created: createdEvent }); the
\* element of eventsData is named by its position
CreatedPush(results, k) ==
    [results EXCEPT !.created = Append(@, [original |-> k, created |-> "createdEvent"])]

\* a catch block that records nothing
FailedDrop(results, k) == results

\* results.failed.push({ original: eventData, error: error.message })
FailedPush(results, k) ==
    [results EXCEPT !.failed = Append(@, [original |-> k, error |-> "message"])]

\* api while createMultipleEvents runs: k is its loop index (1-based),
\* inFlight the positions whose POST has no response yet, requests the
\* positions a POST was sent for and attempts those createCalendarEvent was
\* called for or the progress callback threw for, in the order of the calls
InitSync ==
    /\ pc = "sync"
    /\ pasted = <<>>
    /\ api \in {[isAuthenticated |-> a, k |-> 1, results |-> NewResults(<<>>),
                 inFlight |-> {}, requests |-> <<>>, attempts |-> <<>>] : a \in BOOLEAN}
    /\ quarter = "Winter" /\ year = "2026"
    /\ rawText = ""
    /\ \E eventsData \in SyncLists : args = [eventsData |-> eventsData]
    /\ lines = <<>> /\ i = 1 /\ scan = ScanStart /\ result = <<>>
    /\ ICSIdle /\ PopupIdle

SyncFrame ==
    UNCHANGED <<quarter, year, rawText, args, pasted, lines, i, scan, icsIn, j, ics, heap,
                currentEvents, review, timers, handler, passed>>

\* if (!this.isAuthenticated) await this.authenticate(): getAuthToken is called
Authenticate ==
    /\ pc = "sync" /\ ~api.isAuthenticated
    /\ pc' = "authenticating"
    /\ UNCHANGED <<api, result>> /\ SyncFrame

\* the callback of getAuthToken without lastError
TokenGranted ==
    /\ pc = "authenticating"
    /\ api' = [api EXCEPT !.isAuthenticated = TRUE]
    /\ pc' = "sync"
    /\ UNCHANGED result /\ SyncFrame

\* the callback with chrome.runtime.lastError: authenticate rejects and so
\* does createMultipleEvents
TokenRefused ==
    /\ pc = "authenticating"
    /\ pc' = "rejected"
    /\ UNCHANGED <<api, result>> /\ SyncFrame

\* const results = {...}; the loop begins
BeginLoop ==
    /\ pc = "sync" /\ api.isAuthenticated
    /\ api' = [api EXCEPT !.results = NewResults(args.eventsData), !.k = 1]
    /\ pc' = "loop"
    /\ UNCHANGED result /\ SyncFrame

AtSyncEvent == pc = "loop" /\ api.k <= Len(args.eventsData)

\* an exception in the try block before fetch is called: in progressCallback,
\* or in formatEventForGoogleCalendar, where toISOString throws of a date the
\* engine did not parse; the catch block records it and the loop goes on
ThrowBeforeRequest ==
    /\ AtSyncEvent
    /\ api' = [api EXCEPT !.results = FailedPush(@, api.k), !.k = @ + 1,
                          !.attempts = Append(@, api.k)]
    /\ UNCHANGED <<pc, result>> /\ SyncFrame

\* createCalendarEvent: await fetch(..., { method: 'POST', ... })
Fetch ==
    /\ AtSyncEvent
    /\ api' = [api EXCEPT !.inFlight = @ \cup {api.k}, !.requests = Append(@, api.k),
                          !.attempts = Append(@, api.k)]
    /\ pc' = "awaiting"
    /\ UNCHANGED result /\ SyncFrame

\* response.ok: the created event is recorded, then await this.delay(100)
ResponseOk ==
    /\ pc = "awaiting"
    /\ api' = [api EXCEPT !.inFlight = @ \ {api.k}, !.results = CreatedPush(@, api.k)]
    /\ pc' = "delay"
    /\ UNCHANGED result /\ SyncFrame

\* fetch rejects, or !response.ok: createCalendarEvent throws, the catch block
\* records the failure, and the next iteration begins without the delay
ResponseError ==
    /\ pc = "awaiting"
    /\ api' = [api EXCEPT !.inFlight = @ \ {api.k}, !.results = FailedPush(@, api.k),
                          !.k = @ + 1]
    /\ pc' = "loop"
    /\ UNCHANGED result /\ SyncFrame

\* the timeout of delay(100) fires
DelayElapsed ==
    /\ pc = "delay"
    /\ api' = [api EXCEPT !.k = @ + 1]
    /\ pc' = "loop"
    /\ UNCHANGED result /\ SyncFrame

\* return results
ReturnResults ==
    /\ pc = "loop" /\ api.k > Len(args.eventsData)
    /\ result' = api.results
    /\ pc' = "resolved"
    /\ UNCHANGED api /\ SyncFrame

NextSync ==
    \/ Authenticate \/ TokenGranted \/ TokenRefused \/ BeginLoop
    \/ ThrowBeforeRequest \/ Fetch \/ ResponseOk \/ ResponseError \/ DelayElapsed
    \/ ReturnResults

SpecSync == InitSync /\ [][NextSync]_vars

\* the positions of eventsData recorded in a list of results
Originals(list) == [n \in 1..Len(list) |-> list[n].original]

\* how often position k is in a list of positions
TimesIn(k, positions) == Cardinality({n \in 1..Len(positions) : positions[n] = k})

\* C30: createMultipleEvents, once authenticated, attempts every event of its
\* input exactly once and in input order, with at most one create request
\* outstanding at any time; a failed create does not stop the later events;
\* when it resolves, created.length + failed.length is total and every input
\* event is in exactly one of the two lists.  If authentication fails, no
\* create request is sent.
C30_SequentialSync ==
    /\ Cardinality(api.inFlight) <= 1
    /\ api.requests # <<>> => api.isAuthenticated
    /\ \A a, b \in 1..Len(api.attempts) : a < b => api.attempts[a] < api.attempts[b]
    /\ \A a, b \in 1..Len(api.requests) : a < b => api.requests[a] < api.requests[b]
    /\ pc = "rejected" => api.requests = <<>> /\ api.attempts = <<>>
    /\ (pc = "loop" /\ api.k > 1 /\ api.k <= Len(args.eventsData)
            /\ TimesIn(api.k - 1, Originals(api.results.failed)) = 1) => ENABLED Fetch
    /\ pc = "resolved" =>
          /\ api.attempts = [k \in 1..Len(args.eventsData) |-> k]
          /\ result.total = Len(args.eventsData)
          /\ Len(result.created) + Len(result.failed) = result.total
          /\ \A k \in 1..Len(args.eventsData) :
                TimesIn(k, Originals(result.created)) + TimesIn(k, Originals(result.failed)) = 1

\* three events, the second of which failed, the others created
C30_Witness ==
    /\ pc = "resolved"
    /\ Len(args.eventsData) = 3
    /\ Originals(result.created) = <<1, 3>>
    /\ Originals(result.failed) = <<2>>
    /\ api.requests = <<1, 2, 3>>
=============================================================================
